---- MODULE Spec2Model ----
(***************************************************************************)
(* Model of GeminiTeacher_path.py: the StudyApp main-thread state, the two *)
(* QThread workers (AIWorker, PDFUploadWorker), the queued signal          *)
(* deliveries between them, the score / streak / level state machine and   *)
(* the response parsing of _handle_ai_result / display_feedback.           *)
(*                                                                         *)
(* Texts are sequences of one-character strings, so that lower(),          *)
(* startswith(), strip() and the reference regex are computed.             *)
(***************************************************************************)
EXTENDS Integers, Sequences, FiniteSets, TLC

(* ------------------------------------------------------------------ *)
(* Program constants                                                   *)
(* ------------------------------------------------------------------ *)
POINTS_CORRECT == 10
POINTS_PARTIAL == 5
STREAK_BONUS_MULTIPLIER == 2
LEVEL_UP_THRESHOLD == 50
QUESTIONS_PER_LEVEL_UP == 5
DIFFICULTY_LEVELS == <<"Easy", "Medium", "Hard">>
ALL_MATERIALS_SKILL_NAME == "All Materials Review"
max_attempts == 10

\* Python's None for names; an optional value of another type is a sequence of
\* length at most one: <<>> is None, <<x>> holds x.
None == "None"
Absent == <<>>
Some(x) == <<x>>

(* ------------------------------------------------------------------ *)
(* Bounds of the model                                                 *)
(* ------------------------------------------------------------------ *)
\* QThread objects (with their workers) created in a run
MaxThreads == 3
\* graded answers explored in the progress-tracker specification
MaxGrades == 15

(* ------------------------------------------------------------------ *)
(* Text helpers: str.lower, str.startswith, str.strip                  *)
(* ------------------------------------------------------------------ *)
UpperChars == <<"A", "B", "C", "D", "E", "F", "G", "H", "I", "J", "K", "L", "M",
                "N", "O", "P", "Q", "R", "S", "T", "U", "V", "W", "X", "Y", "Z">>
LowerChars == <<"a", "b", "c", "d", "e", "f", "g", "h", "i", "j", "k", "l", "m",
                "n", "o", "p", "q", "r", "s", "t", "u", "v", "w", "x", "y", "z">>
DigitChars == <<"0", "1", "2", "3", "4", "5", "6", "7", "8", "9">>

LowerChar(c) ==
    IF \E i \in 1..26 : UpperChars[i] = c
    THEN LowerChars[CHOOSE i \in 1..26 : UpperChars[i] = c]
    ELSE c

Lower(s) == [i \in 1..Len(s) |-> LowerChar(s[i])]

StartsWith(s, p) ==
    /\ Len(s) >= Len(p)
    /\ \A i \in 1..Len(p) : s[i] = p[i]

IsSpace(c) == c \in {" ", "\n", "\t"}

RECURSIVE LStrip(_)
LStrip(s) == IF s # <<>> /\ IsSpace(Head(s)) THEN LStrip(Tail(s)) ELSE s

RECURSIVE RStrip(_)
RStrip(s) ==
    IF s # <<>> /\ IsSpace(s[Len(s)]) THEN RStrip(SubSeq(s, 1, Len(s) - 1)) ELSE s

Strip(s) == RStrip(LStrip(s))

PrefixCorrect == <<"s", "t", "a", "t", "u", "s", ":", " ", "c", "o", "r", "r", "e", "c", "t">>
PrefixPartial == <<"s", "t", "a", "t", "u", "s", ":", " ", "p", "a", "r", "t", "i", "a",
                   "l", "l", "y", " ", "c", "o", "r", "r", "e", "c", "t">>
PrefixIncorrect == <<"s", "t", "a", "t", "u", "s", ":", " ", "i", "n", "c", "o", "r", "r",
                     "e", "c", "t">>

\* the chain on the reply as it is, without lower()
FeedbackTypeCaseSensitive(result_text) ==
    IF StartsWith(result_text, PrefixCorrect) THEN "correct"
    ELSE IF StartsWith(result_text, PrefixPartial) THEN "partial"
    ELSE IF StartsWith(result_text, PrefixIncorrect) THEN "incorrect"
    ELSE "default"

\* The if / elif chain of _handle_ai_result on feedback_lower.
FeedbackType(result_text) ==
    LET feedback_lower == Lower(result_text) IN
    IF StartsWith(feedback_lower, PrefixCorrect) THEN "correct"
    ELSE IF StartsWith(feedback_lower, PrefixPartial) THEN "partial"
    ELSE IF StartsWith(feedback_lower, PrefixIncorrect) THEN "incorrect"
    ELSE "default"

(* ------------------------------------------------------------------ *)
(* REFERENCE_REGEX = Reference:\s*\[?(\d+)\]?:\[?(\d+)\]?  and .search  *)
(* ------------------------------------------------------------------ *)
RefLiteral == <<"R", "e", "f", "e", "r", "e", "n", "c", "e", ":">>

IsDigit(c) == \E i \in 1..10 : DigitChars[i] = c
DigitValue(c) == (CHOOSE i \in 1..10 : DigitChars[i] = c) - 1

\* first position >= i that does not hold white space
RECURSIVE SkipSpaces(_, _)
SkipSpaces(s, i) == IF i <= Len(s) /\ IsSpace(s[i]) THEN SkipSpaces(s, i + 1) ELSE i

\* first position >= i that does not hold a digit (greedy \d+)
RECURSIVE SkipDigits(_, _)
SkipDigits(s, i) == IF i <= Len(s) /\ IsDigit(s[i]) THEN SkipDigits(s, i + 1) ELSE i

\* no optional character is accepted
SkipNoBracket(s, i, c) == i

\* position after an optional character c at i
SkipOpt(s, i, c) == IF i <= Len(s) /\ s[i] = c THEN i + 1 ELSE i

\* int() of the digits s[i..j-1]
RECURSIVE ParseInt(_, _, _)
ParseInt(s, i, j) ==
    IF i >= j THEN 0 ELSE ParseInt(s, i, j - 1) * 10 + DigitValue(s[j - 1])

\* The match of the regex anchored at position i: Absent, or the two groups.
MatchAt(s, i) ==
    IF ~ (i + Len(RefLiteral) - 1 <= Len(s)
          /\ SubSeq(s, i, i + Len(RefLiteral) - 1) = RefLiteral)
    THEN Absent
    ELSE LET a  == SkipOpt(s, SkipSpaces(s, i + Len(RefLiteral)), "[")
             b  == SkipDigits(s, a)
             c  == SkipOpt(s, b, "]")
             d  == SkipOpt(s, c + 1, "[")
             e  == SkipDigits(s, d)
         IN IF b > a /\ c <= Len(s) /\ s[c] = ":" /\ e > d
            THEN Some([doc |-> ParseInt(s, a, b), page |-> ParseInt(s, d, e)])
            ELSE Absent

\* REFERENCE_REGEX.search(text): the leftmost match.
RECURSIVE SearchFrom(_, _)
SearchFrom(s, i) ==
    IF i > Len(s) THEN Absent
    ELSE IF MatchAt(s, i) # Absent THEN MatchAt(s, i)
    ELSE SearchFrom(s, i + 1)

REFERENCE_REGEX_search(text) == SearchFrom(text, 1)

(* ------------------------------------------------------------------ *)
(* Progress of a skill: the submit_answer branch of _handle_ai_result  *)
(* ------------------------------------------------------------------ *)
\* a new entry whose level is counted from 0
SkillDataFromLevelZero ==
    [score |-> 0, streak |-> 0, level |-> 0, questions_answered |-> 0,
     current_difficulty_index |-> 0]

DefaultSkillData ==
    [score |-> 0, streak |-> 0, level |-> 1, questions_answered |-> 0,
     current_difficulty_index |-> 0]

\* the condition of _get_current_skill_data (a name is truthy when it is set)
HasSkillData(sp, name) ==
    name # None /\ name # ALL_MATERIALS_SKILL_NAME /\ name \in DOMAIN sp

GetCurrentSkillData(sp, name) ==
    IF HasSkillData(sp, name) THEN sp[name] ELSE DefaultSkillData

\* skill_data['streak'] += 1 on the dict _get_current_skill_data returned: the
\* stored dict is changed in place, a default dict is a fresh object that is lost.
IncrementStreak(sp, name) ==
    IF HasSkillData(sp, name) THEN [sp EXCEPT ![name].streak = @ + 1] ELSE sp

\* bonus = skill_data['streak'] * STREAK_BONUS_MULTIPLIER, read after the increment
StreakBonus(sp, name) ==
    (GetCurrentSkillData(sp, name).streak + 1) * STREAK_BONUS_MULTIPLIER

\* a partially correct answer earns nothing
PointsEarnedPartialLost(sp, name, feedback_type) ==
    IF feedback_type = "correct"
    THEN IF name # ALL_MATERIALS_SKILL_NAME
         THEN POINTS_CORRECT + StreakBonus(sp, name)
         ELSE POINTS_CORRECT
    ELSE 0

PointsEarned(sp, name, feedback_type) ==
    IF feedback_type = "correct"
    THEN IF name # ALL_MATERIALS_SKILL_NAME
         THEN POINTS_CORRECT + StreakBonus(sp, name)
         ELSE POINTS_CORRECT
    ELSE IF feedback_type = "partial" THEN POINTS_PARTIAL
    ELSE 0

\* only an answer without points breaks the streak
StreakBrokenWithoutPoints(feedback_type) == feedback_type \notin {"correct", "partial"}

StreakBroken(feedback_type) == feedback_type # "correct"

\* the answer counted a second time
AddPointsCountedTwice(data, points_earned, streak_broken) ==
    [data EXCEPT !.score = @ + points_earned,
                 !.questions_answered = @ + 2,
                 !.streak = IF streak_broken THEN 0 ELSE @]

\* score, questions_answered and streak of the "Update skill data" block
AddPoints(data, points_earned, streak_broken) ==
    [data EXCEPT !.score = @ + points_earned,
                 !.questions_answered = @ + 1,
                 !.streak = IF streak_broken THEN 0 ELSE @]

\* the step without the test against the last difficulty level
DifficultyStepUncapped(data, points_earned) ==
    IF /\ data.questions_answered > 0
       /\ data.questions_answered % QUESTIONS_PER_LEVEL_UP = 0
       /\ points_earned > 0
    THEN [data EXCEPT !.current_difficulty_index = @ + 1]
    ELSE data

\* the step without the test of the points earned
DifficultyStepAnyPoints(data, points_earned) ==
    IF /\ data.questions_answered > 0
       /\ data.questions_answered % QUESTIONS_PER_LEVEL_UP = 0
       /\ data.current_difficulty_index < Len(DIFFICULTY_LEVELS) - 1
    THEN [data EXCEPT !.current_difficulty_index = @ + 1]
    ELSE data

\* "Difficulty / Level Up Logic"
DifficultyStep(data, points_earned) ==
    IF /\ data.questions_answered > 0
       /\ data.questions_answered % QUESTIONS_PER_LEVEL_UP = 0
       /\ points_earned > 0
       /\ data.current_difficulty_index < Len(DIFFICULTY_LEVELS) - 1
    THEN [data EXCEPT !.current_difficulty_index = @ + 1]
    ELSE data

\* the level counted from 0
NewLevelFromZero(data) == data.score \div LEVEL_UP_THRESHOLD

\* "Level up based on score within the skill"
NewLevel(data) == 1 + (data.score \div LEVEL_UP_THRESHOLD)

LevelStep(data) ==
    IF NewLevel(data) > data.level THEN [data EXCEPT !.level = NewLevel(data)] ELSE data

\* the skill data handed to _update_current_skill_data
GradedSkillData(sp, name, feedback_type) ==
    LET points_earned == PointsEarned(sp, name, feedback_type)
        sp1 == IF feedback_type = "correct" THEN IncrementStreak(sp, name) ELSE sp
        d0  == GetCurrentSkillData(sp1, name)
    IN LevelStep(DifficultyStep(AddPoints(d0, points_earned, StreakBroken(feedback_type)),
                                points_earned))

\* _update_current_skill_data: the assignment into skill_progress
StoreSkillData(sp, name, data) ==
    IF name # None /\ name # ALL_MATERIALS_SKILL_NAME
    THEN [n \in DOMAIN sp \cup {name} |-> IF n = name THEN data ELSE sp[n]]
    ELSE sp

\* the graded data stored whatever the mode
GradedProgressAnyMode(sp, name, feedback_type) ==
    [n \in DOMAIN sp \cup {name} |->
        IF n = name THEN GradedSkillData(sp, name, feedback_type) ELSE sp[n]]

\* skill_progress after a graded answer
GradedProgress(sp, name, feedback_type) ==
    IF name = ALL_MATERIALS_SKILL_NAME THEN sp
    ELSE StoreSkillData(sp, name, GradedSkillData(sp, name, feedback_type))

RECURSIVE SumScores(_, _)
SumScores(sp, names) ==
    IF names = {} THEN 0
    ELSE LET n == CHOOSE x \in names : TRUE
         IN sp[n].score + SumScores(sp, names \ {n})

\* the total taken from a single entry
TotalOfOneSkill(sp) ==
    LET names == DOMAIN sp \ {ALL_MATERIALS_SKILL_NAME}
    IN IF names = {} THEN 0 ELSE sp[CHOOSE n \in names : TRUE].score

\* _recalculate_total_score
RecalculatedTotal(sp) == SumScores(sp, DOMAIN sp \ {ALL_MATERIALS_SKILL_NAME})

(* ------------------------------------------------------------------ *)
(* Inputs                                                              *)
(* ------------------------------------------------------------------ *)
\* files the user can pick; two of them share a basename
Paths == {[dir |-> "d1", base |-> "a.pdf"], [dir |-> "d2", base |-> "a.pdf"],
          [dir |-> "d1", base |-> "B.pdf"]}
Basenames == {p.base : p \in Paths}
SkillNames == Basenames \cup {ALL_MATERIALS_SKILL_NAME}

\* os.path.basename
Basename(file_path) == file_path.base

\* ConfigParser.optionxform: option names are stored in lower case
Optionxform(skill_name) ==
    IF skill_name = "B.pdf" THEN "b.pdf"
    ELSE IF skill_name = ALL_MATERIALS_SKILL_NAME THEN "all materials review"
    ELSE skill_name

\* replies of the AI model (response texts before strip())
ReplyCorrect == <<" ", "S", "t", "a", "t", "u", "s", ":", " ", "C", "o", "r", "r", "e", "c", "t">>
ReplyPartial == <<"s", "t", "a", "t", "u", "s", ":", " ", "p", "a", "r", "t", "i", "a", "l",
                  "l", "y", " ", "c", "o", "r", "r", "e", "c", "t", " ", "R", "e", "f", "e",
                  "r", "e", "n", "c", "e", ":", " ", "0", ":", "7">>
ReplyIncorrect == <<"S", "T", "A", "T", "U", "S", ":", " ", "I", "n", "c", "o", "r", "r",
                    "e", "c", "t">>
ReplyHint == <<"H", "i", "n", "t", " ", "R", "e", "f", "e", "r", "e", "n", "c", "e", ":",
               " ", "[", "5", "]", ":", "[", "1", "]">>
ReplyEmpty == <<>>
Replies == {ReplyCorrect, ReplyPartial, ReplyIncorrect, ReplyHint, ReplyEmpty}

\* the replies explored for a task: a question matters by being empty or not,
\* a hint by its reference tag, a grading reply by its status line and its tag
RepliesFor(task_identifier) ==
    IF task_identifier = "next_question" THEN {ReplyHint, ReplyEmpty}
    ELSE IF task_identifier = "get_guidance" THEN {ReplyHint, ReplyPartial}
    ELSE Replies

\* what a call of model.generate_content can do
ApiOutcomes(task_identifier) ==
    {[kind |-> "raises", text |-> <<>>], [kind |-> "rejected", text |-> <<>>]}
        \cup {[kind |-> "text", text |-> r] : r \in RepliesFor(task_identifier)}

\* the state names of an uploaded file, and a failing call of the File API
FileStates == {"PROCESSING", "ACTIVE", "FAILED"}
FileApiOutcomes == FileStates \cup {"raises"}

\* the user's answer text after strip()
Answers == {"", "answer"}

\* contents of ai_tutor_config.ini when the application starts
EmptyProgress == [n \in {} |-> DefaultSkillData]
NoConfigFile ==
    [exists |-> FALSE, api_key |-> "", model |-> "", progress |-> EmptyProgress]
StoredConfigFile ==
    [exists |-> TRUE, api_key |-> "key", model |-> "gemini-1.5-flash",
     progress |-> [n \in {"b.pdf"} |->
                     [score |-> 12, streak |-> 1, level |-> 1, questions_answered |-> 1,
                      current_difficulty_index |-> 0]]]

DEFAULT_MODEL == "gemini-1.5-flash"
ApiKeys == {"", "key"}
ModelNames == {"", DEFAULT_MODEL}

Slots == 1..MaxThreads

(* ------------------------------------------------------------------ *)
(* State                                                               *)
(* ------------------------------------------------------------------ *)
VARIABLES
    \* StudyApp fields
    pdf_file_paths, pdf_file_basenames, uploaded_file_references,
    current_skill_name, current_question, quiz_active, gemini_configured, model,
    api_key, selected_model_name, current_reference, skill_progress, total_score,
    level_up_occurred, thread, worker,
    \* widgets: view_stack index, the state given to set_buttons_state, enabled
    \* flags, whether feedback_display holds text, the title of the message box
    \* shown by the slot that ran last on the main thread ("none": it showed none)
    view, buttons, back_enabled, controls_enabled, process_enabled, ref_enabled,
    feedback_shown, dialog,
    \* the Progress section of the config file
    saved_progress,
    \* QThread objects: "none" (not created yet), "running", "finished" (finished
    \* was emitted), "deleted" (after deleteLater); quit() called
    t_state, t_quit,
    \* worker objects: class, position in run(), _is_running, task_identifier,
    \* the response of generate_content
    w_kind, w_pc, w_is_running, w_task, w_resp,
    \* PDFUploadWorker.run locals: basenames, i (from 1), attempts,
    \* uploaded_file.state.name, temp_uploaded_references, and what became of the
    \* remote file of the current iteration: "none", "held", "deleted"
    u_files, u_i, u_attempts, u_fstate, u_temp, u_remote,
    \* queued slot invocations posted to the main thread, in order
    queue,
    \* the close event was accepted
    closed

appVars == <<pdf_file_paths, pdf_file_basenames, uploaded_file_references,
             current_skill_name, current_question, quiz_active, gemini_configured, model,
             api_key, selected_model_name, current_reference, skill_progress,
             total_score, level_up_occurred, thread, worker>>
uiVars == <<view, buttons, back_enabled, controls_enabled, process_enabled, ref_enabled,
            feedback_shown, dialog>>
threadVars == <<t_state, t_quit>>
workerVars == <<w_kind, w_pc, w_is_running, w_task, w_resp>>
uploadVars == <<u_files, u_i, u_attempts, u_fstate, u_temp, u_remote>>
vars == <<appVars, uiVars, saved_progress, threadVars, workerVars, uploadVars,
          queue, closed>>

(* ------------------------------------------------------------------ *)
(* Helpers on the state                                                *)
(* ------------------------------------------------------------------ *)
\* a queued invocation: the signal, the object that emitted it, its argument
Signal(sig, src, arg) == [sig |-> sig, src |-> src, arg |-> arg]

\* QThread.isRunning
IsRunning(t) == t_state[t] = "running"

\* self.thread is not None and self.thread.isRunning()
ThreadBusy == thread # Absent /\ IsRunning(thread[1])

Truthy(text) == text # Absent /\ text[1] # <<>>

IndexOf(seq, x) == CHOOSE i \in 1..Len(seq) : seq[i] = x
InSeq(seq, x) == \E i \in 1..Len(seq) : seq[i] = x

FreeSlots == {t \in Slots : t_state[t] = "none"}
NewSlot == CHOOSE t \in FreeSlots : \A u \in FreeSlots : t <= u

\* save_config: the Progress section written from skill_progress. Two names
\* with one lower-case form share an option; the one written last stays, which
\* is the basename added after the option was loaded.
ProgressSection(sp) ==
    LET kept == DOMAIN sp \ {ALL_MATERIALS_SKILL_NAME}
        Last(k) == IF \E n \in kept : Optionxform(n) = k /\ n # k
                   THEN CHOOSE n \in kept : Optionxform(n) = k /\ n # k
                   ELSE k
    IN [k \in {Optionxform(n) : n \in kept} |-> sp[Last(k)]]

\* is_actively_processing of _set_processing_state
ActivelyProcessing(processing) == processing \/ ThreadBusy

\* can_process_pdfs of _set_processing_state
CanProcessPdfs(processing, configured, paths) ==
    ~ ActivelyProcessing(processing) /\ configured /\ paths # <<>>

(* ------------------------------------------------------------------ *)
(* Initial state: StudyApp.__init__ with load_config                   *)
(* ------------------------------------------------------------------ *)
\* load_config and the configure_ai call it makes; ai_ok is whether
\* genai.configure / GenerativeModel succeed
Loaded(file, ai_ok) ==
    /\ api_key = file.api_key
    /\ selected_model_name = (IF file.exists THEN file.model ELSE DEFAULT_MODEL)
    /\ skill_progress = file.progress
    /\ total_score = RecalculatedTotal(file.progress)
    /\ gemini_configured = (file.api_key # "" /\ file.model # "" /\ ai_ok)
    /\ model = (IF file.api_key # "" /\ file.model # "" /\ ai_ok THEN "model" ELSE None)
    /\ saved_progress = file.progress

\* no QThread was created yet, nothing is queued
NoThreads ==
    /\ thread = Absent
    /\ worker = Absent
    /\ t_state = [t \in Slots |-> "none"]
    /\ t_quit = [t \in Slots |-> FALSE]
    /\ w_kind = [t \in Slots |-> "none"]
    /\ w_pc = [t \in Slots |-> "none"]
    /\ w_is_running = [t \in Slots |-> FALSE]
    /\ w_task = [t \in Slots |-> "none"]
    /\ w_resp = [t \in Slots |-> Absent]
    /\ u_files = [t \in Slots |-> <<>>]
    /\ u_i = [t \in Slots |-> 0]
    /\ u_attempts = [t \in Slots |-> 0]
    /\ u_fstate = [t \in Slots |-> "none"]
    /\ u_temp = [t \in Slots |-> <<>>]
    /\ u_remote = [t \in Slots |-> "none"]
    /\ queue = <<>>

Init ==
    /\ \/ Loaded(NoConfigFile, FALSE)
       \/ \E ai_ok \in BOOLEAN : Loaded(StoredConfigFile, ai_ok)
    /\ NoThreads
    /\ pdf_file_paths = <<>>
    /\ pdf_file_basenames = <<>>
    /\ uploaded_file_references = {}
    /\ current_skill_name = None
    /\ current_question = Absent
    /\ quiz_active = FALSE
    /\ current_reference = Absent
    /\ level_up_occurred = FALSE
    /\ view = 0
    /\ buttons = "unset"
    /\ back_enabled = TRUE
    /\ controls_enabled = TRUE
    /\ process_enabled = TRUE
    /\ ref_enabled = FALSE
    /\ feedback_shown = FALSE
    /\ dialog = "none"
    /\ closed = FALSE

(* ------------------------------------------------------------------ *)
(* Views                                                               *)
(* ------------------------------------------------------------------ *)
\* the Back buttons of the quiz and settings views
ShowSkillPathView ==
    /\ ~ closed
    /\ \/ view = 1 /\ back_enabled
       \/ view = 2 /\ controls_enabled
    /\ view' = 0
    /\ current_skill_name' = None
    /\ UNCHANGED <<pdf_file_paths, pdf_file_basenames, uploaded_file_references,
                   current_question, quiz_active, gemini_configured, model, api_key,
                   selected_model_name, current_reference, skill_progress, total_score,
                   level_up_occurred, thread, worker>>
    /\ dialog' = "none"
    /\ UNCHANGED <<buttons, back_enabled, controls_enabled, process_enabled, ref_enabled,
                   feedback_shown>>
    /\ UNCHANGED <<saved_progress, threadVars, workerVars, uploadVars,
                   queue, closed>>

\* the settings button of the header
ShowSettingsView ==
    /\ ~ closed
    /\ controls_enabled
    /\ view' = 2
    /\ dialog' = "none"
    /\ UNCHANGED <<appVars, buttons, back_enabled, controls_enabled, process_enabled,
                   ref_enabled, feedback_shown>>
    /\ UNCHANGED <<saved_progress, threadVars, workerVars, uploadVars,
                   queue, closed>>

(* ------------------------------------------------------------------ *)
(* Settings view                                                       *)
(* ------------------------------------------------------------------ *)
backgroundVars == <<threadVars, workerVars, uploadVars, queue, closed>>

\* apply_and_save_config with the settings read from the widgets; saved is
\* whether save_config could write the file, ai_ok whether configure_ai's calls
\* into the library succeed
ApplyAndSaveConfig(key, name, saved, ai_ok) ==
    /\ ~ closed /\ view = 2 /\ controls_enabled
    /\ IF ThreadBusy
       THEN /\ dialog' = "Busy"
            /\ UNCHANGED <<api_key, selected_model_name, saved_progress,
                           gemini_configured, model>>
       ELSE /\ api_key' = key
            /\ selected_model_name' = name
            /\ IF ~ saved
               THEN /\ dialog' = "Config Save Error"
                    /\ UNCHANGED <<saved_progress, gemini_configured, model>>
               ELSE /\ saved_progress' = ProgressSection(skill_progress)
                    /\ gemini_configured' = (key # "" /\ name # "" /\ ai_ok)
                    /\ model' = (IF key # "" /\ name # "" /\ ai_ok THEN "model" ELSE None)
                    /\ dialog' = (IF key # "" /\ name # "" /\ ~ ai_ok
                                  THEN "AI Config Error" ELSE "none")
    /\ UNCHANGED <<pdf_file_paths, pdf_file_basenames, uploaded_file_references,
                   current_skill_name, current_question, quiz_active, current_reference,
                   skill_progress, total_score, level_up_occurred, thread, worker>>
    /\ UNCHANGED <<view, buttons, back_enabled, controls_enabled, process_enabled,
                   ref_enabled, feedback_shown>>
    /\ UNCHANGED backgroundVars

\* the for loop of add_pdfs over the files not yet handled
RECURSIVE AddLoop(_, _)
AddLoop(files, acc) ==
    IF files = <<>> THEN acc
    ELSE LET file_path == Head(files)
             basename == Basename(file_path)
         IN IF InSeq(acc.paths, file_path) THEN AddLoop(Tail(files), acc)
            ELSE IF InSeq(acc.basenames, basename)
            THEN AddLoop(Tail(files), [acc EXCEPT !.duplicate = TRUE])
            ELSE AddLoop(Tail(files),
                   [acc EXCEPT
                      !.paths = Append(@, file_path),
                      !.basenames = Append(@, basename),
                      !.changed = TRUE,
                      !.progress = IF basename \in DOMAIN @ THEN @
                                   ELSE [n \in DOMAIN @ \cup {basename} |->
                                           IF n = basename THEN DefaultSkillData
                                           ELSE @[n]]])

FileSelections ==
    {<<p>> : p \in Paths}
        \cup {s \in {<<p, q>> : p \in Paths, q \in Paths} : s[1] # s[2]}

AddPdfs(files) ==
    /\ ~ closed /\ view = 2 /\ controls_enabled
    /\ IF ThreadBusy
       THEN /\ dialog' = "Busy"
            /\ UNCHANGED <<pdf_file_paths, pdf_file_basenames, skill_progress,
                           uploaded_file_references, quiz_active>>
       ELSE LET r == AddLoop(files, [paths |-> pdf_file_paths,
                                     basenames |-> pdf_file_basenames,
                                     progress |-> skill_progress,
                                     changed |-> FALSE, duplicate |-> FALSE])
            IN /\ pdf_file_paths' = r.paths
               /\ pdf_file_basenames' = r.basenames
               /\ skill_progress' = r.progress
               /\ dialog' = (IF r.duplicate THEN "Duplicate Filename" ELSE "none")
               /\ uploaded_file_references' =
                     (IF r.changed THEN {} ELSE uploaded_file_references)
               /\ quiz_active' = (IF r.changed THEN FALSE ELSE quiz_active)
    /\ UNCHANGED <<current_skill_name, current_question, gemini_configured, model,
                   api_key, selected_model_name, current_reference, total_score,
                   level_up_occurred, thread, worker>>
    /\ UNCHANGED <<view, buttons, back_enabled, controls_enabled, process_enabled,
                   ref_enabled, feedback_shown, saved_progress>>
    /\ UNCHANGED backgroundVars

\* the first entry is removed, whatever was selected
RemoveFirst(seq, basenames, selected) == Tail(seq)

\* a sequence without the entries whose basename is selected
RECURSIVE RemoveAt(_, _, _)
RemoveAt(seq, basenames, selected) ==
    IF seq = <<>> THEN <<>>
    ELSE IF Head(basenames) \in selected
         THEN RemoveAt(Tail(seq), Tail(basenames), selected)
         ELSE <<Head(seq)>> \o RemoveAt(Tail(seq), Tail(basenames), selected)

RemovePdfsByName(basenames_to_remove) ==
    /\ ~ closed /\ view = 2 /\ controls_enabled
    /\ basenames_to_remove # {}
    /\ \A n \in basenames_to_remove : InSeq(pdf_file_basenames, n)
    /\ IF ThreadBusy
       THEN /\ dialog' = "Busy"
            /\ UNCHANGED <<pdf_file_paths, pdf_file_basenames, skill_progress,
                           uploaded_file_references, quiz_active, total_score>>
       ELSE LET progress == [n \in DOMAIN skill_progress \ basenames_to_remove |->
                               skill_progress[n]]
            IN /\ pdf_file_paths' =
                     RemoveAt(pdf_file_paths, pdf_file_basenames, basenames_to_remove)
               /\ pdf_file_basenames' =
                     RemoveAt(pdf_file_basenames, pdf_file_basenames, basenames_to_remove)
               /\ skill_progress' = progress
               /\ uploaded_file_references' = {}
               /\ total_score' = RecalculatedTotal(progress)
               /\ quiz_active' = FALSE
               /\ dialog' = "none"
    /\ UNCHANGED <<current_skill_name, current_question, gemini_configured, model,
                   api_key, selected_model_name, current_reference, level_up_occurred,
                   thread, worker>>
    /\ UNCHANGED <<view, buttons, back_enabled, controls_enabled, process_enabled,
                   ref_enabled, feedback_shown, saved_progress>>
    /\ UNCHANGED backgroundVars

\* clear_pdfs without _clear_uploaded_references
ClearPdfsKeepsReferences ==
    /\ ~ closed /\ view = 2 /\ controls_enabled
    /\ pdf_file_basenames # <<>>
    /\ IF ThreadBusy
       THEN /\ dialog' = "Busy"
            /\ UNCHANGED <<pdf_file_paths, pdf_file_basenames, skill_progress,
                           uploaded_file_references, quiz_active, total_score>>
       ELSE /\ pdf_file_paths' = <<>>
            /\ pdf_file_basenames' = <<>>
            /\ skill_progress' = EmptyProgress
            /\ total_score' = RecalculatedTotal(EmptyProgress)
            /\ dialog' = "none"
            /\ UNCHANGED <<uploaded_file_references, quiz_active>>
    /\ UNCHANGED <<current_skill_name, current_question, gemini_configured, model,
                   api_key, selected_model_name, current_reference, level_up_occurred,
                   thread, worker>>
    /\ UNCHANGED <<view, buttons, back_enabled, controls_enabled, process_enabled,
                   ref_enabled, feedback_shown, saved_progress>>
    /\ UNCHANGED backgroundVars

ClearPdfs ==
    /\ ~ closed /\ view = 2 /\ controls_enabled
    /\ pdf_file_basenames # <<>>
    /\ IF ThreadBusy
       THEN /\ dialog' = "Busy"
            /\ UNCHANGED <<pdf_file_paths, pdf_file_basenames, skill_progress,
                           uploaded_file_references, quiz_active, total_score>>
       ELSE /\ pdf_file_paths' = <<>>
            /\ pdf_file_basenames' = <<>>
            /\ skill_progress' = EmptyProgress
            /\ uploaded_file_references' = {}
            /\ total_score' = RecalculatedTotal(EmptyProgress)
            /\ quiz_active' = FALSE
            /\ dialog' = "none"
    /\ UNCHANGED <<current_skill_name, current_question, gemini_configured, model,
                   api_key, selected_model_name, current_reference, level_up_occurred,
                   thread, worker>>
    /\ UNCHANGED <<view, buttons, back_enabled, controls_enabled, process_enabled,
                   ref_enabled, feedback_shown, saved_progress>>
    /\ UNCHANGED backgroundVars

(* ------------------------------------------------------------------ *)
(* Starting a background task                                          *)
(* ------------------------------------------------------------------ *)
\* QThread(self), the worker's constructor, moveToThread, the connects and
\* thread.start(): the new objects take the place of the handles held before
StartWorker(t, kind, task_identifier, basenames) ==
    /\ t_state' = [t_state EXCEPT ![t] = "running"]
    /\ t_quit' = [t_quit EXCEPT ![t] = FALSE]
    /\ w_kind' = [w_kind EXCEPT ![t] = kind]
    /\ w_pc' = [w_pc EXCEPT ![t] = "start"]
    /\ w_is_running' = [w_is_running EXCEPT ![t] = TRUE]
    /\ w_task' = [w_task EXCEPT ![t] = task_identifier]
    /\ w_resp' = [w_resp EXCEPT ![t] = Absent]
    /\ u_files' = [u_files EXCEPT ![t] = basenames]
    /\ u_i' = [u_i EXCEPT ![t] = 1]
    /\ u_attempts' = [u_attempts EXCEPT ![t] = 0]
    /\ u_fstate' = [u_fstate EXCEPT ![t] = "none"]
    /\ u_temp' = [u_temp EXCEPT ![t] = <<>>]
    /\ u_remote' = [u_remote EXCEPT ![t] = "none"]
    /\ thread' = Some(t)
    /\ worker' = Some(t)

NoWorkerStarted ==
    UNCHANGED <<thread, worker, threadVars, workerVars, uploadVars>>

\* _set_processing_state(processing) on the enabled flags it sets
SetProcessingState(processing) ==
    /\ controls_enabled' = ~ ActivelyProcessing(processing)
    /\ back_enabled' = ~ ActivelyProcessing(processing)
    /\ process_enabled' = CanProcessPdfs(processing, gemini_configured, pdf_file_paths)

\* process_pdfs: the Upload Material button
ProcessPdfs ==
    /\ ~ closed /\ view = 2 /\ process_enabled
    /\ IF ~ gemini_configured
       THEN /\ dialog' = "Error"
            /\ NoWorkerStarted
            /\ UNCHANGED <<uploaded_file_references, quiz_active, controls_enabled,
                           back_enabled, process_enabled>>
       ELSE IF pdf_file_paths = <<>>
       THEN /\ dialog' = "Error"
            /\ NoWorkerStarted
            /\ UNCHANGED <<uploaded_file_references, quiz_active, controls_enabled,
                           back_enabled, process_enabled>>
       ELSE IF ThreadBusy
       THEN /\ dialog' = "Busy"
            /\ NoWorkerStarted
            /\ UNCHANGED <<uploaded_file_references, quiz_active, controls_enabled,
                           back_enabled, process_enabled>>
       ELSE /\ FreeSlots # {}
            /\ SetProcessingState(TRUE)
            /\ uploaded_file_references' = {}
            /\ quiz_active' = FALSE
            /\ StartWorker(NewSlot, "upload", "upload", pdf_file_basenames)
            /\ dialog' = "none"
    /\ UNCHANGED <<pdf_file_paths, pdf_file_basenames, current_skill_name,
                   current_question, gemini_configured, model, api_key,
                   selected_model_name, current_reference, skill_progress, total_score,
                   level_up_occurred>>
    /\ UNCHANGED <<view, buttons, ref_enabled, feedback_shown, saved_progress,
                   queue, closed>>

\* the task started without the test of the configuration
StartAiTaskUnconfigured(task_identifier) ==
    /\ FreeSlots # {}
    /\ controls_enabled' = FALSE
    /\ process_enabled' = FALSE
    /\ back_enabled' = FALSE
    /\ feedback_shown' = (task_identifier # "next_question")
    /\ StartWorker(NewSlot, "ai", task_identifier, <<>>)
    /\ buttons' = "processing"
    /\ dialog' = "none"

\* _start_ai_task and the set_buttons_state('processing') of its caller. The
\* busy test of _start_ai_task repeats the one its callers made just before.
StartAiTask(task_identifier) ==
    IF ~ gemini_configured \/ model = None
    THEN /\ dialog' = "Error"
         /\ SetProcessingState(FALSE)
         /\ NoWorkerStarted
         /\ UNCHANGED buttons
         /\ feedback_shown' = (IF task_identifier = "next_question" THEN FALSE
                                ELSE feedback_shown)
    ELSE /\ FreeSlots # {}
         /\ controls_enabled' = FALSE
         /\ process_enabled' = FALSE
         /\ back_enabled' = FALSE
         /\ feedback_shown' = (task_identifier # "next_question")
         /\ StartWorker(NewSlot, "ai", task_identifier, <<>>)
         /\ buttons' = "processing"
         /\ dialog' = "none"

IsAllMaterialsMode == current_skill_name = ALL_MATERIALS_SKILL_NAME

\* a call that returns after a message box, changing nothing else
Refused(title) ==
    /\ dialog' = title
    /\ NoWorkerStarted
    /\ UNCHANGED <<current_question, buttons, back_enabled, controls_enabled,
                   process_enabled, ref_enabled, feedback_shown>>

quizFrame ==
    <<pdf_file_paths, pdf_file_basenames, uploaded_file_references, current_skill_name,
      quiz_active, gemini_configured, model, api_key, selected_model_name,
      current_reference, skill_progress, total_score, level_up_occurred, view,
      saved_progress, queue, closed>>

\* next_question: the Next Question button
NextQuestion ==
    /\ ~ closed /\ view = 1 /\ buttons \in {"initial", "feedback", "unset"}
    /\ IF current_skill_name = None THEN Refused("Error")
       ELSE IF ~ quiz_active \/ uploaded_file_references = {} THEN Refused("Error")
       ELSE IF ThreadBusy THEN Refused("Busy")
       ELSE /\ current_question' = Absent
            /\ ref_enabled' = FALSE
            /\ IF ~ IsAllMaterialsMode
                  /\ current_skill_name \notin uploaded_file_references
               THEN /\ dialog' = "Error"
                    /\ SetProcessingState(FALSE)
                    /\ feedback_shown' = FALSE
                    /\ NoWorkerStarted
                    /\ UNCHANGED buttons
               ELSE StartAiTask("next_question")
    /\ UNCHANGED quizFrame

\* get_guidance: the Guidance button
GetGuidance ==
    /\ ~ closed /\ view = 1 /\ buttons \in {"question", "unset"}
    /\ IF \/ ~ Truthy(current_question) \/ current_skill_name = None
          \/ ~ quiz_active \/ uploaded_file_references = {}
       THEN Refused("Error")
       ELSE IF ThreadBusy THEN Refused("Busy")
       ELSE IF ~ IsAllMaterialsMode /\ current_skill_name \notin uploaded_file_references
       THEN Refused("Error")
       ELSE /\ StartAiTask("get_guidance")
            /\ UNCHANGED <<current_question, ref_enabled>>
    /\ UNCHANGED quizFrame

\* submit_answer with the text of the answer entry
SubmitAnswer(user_answer) ==
    /\ ~ closed /\ view = 1 /\ buttons \in {"question", "unset"}
    /\ IF \/ ~ Truthy(current_question) \/ current_skill_name = None
          \/ ~ quiz_active \/ uploaded_file_references = {}
       THEN Refused("Error")
       ELSE IF user_answer = "" THEN Refused("Input Needed")
       ELSE IF ThreadBusy THEN Refused("Busy")
       ELSE IF ~ IsAllMaterialsMode /\ current_skill_name \notin uploaded_file_references
       THEN Refused("Error")
       ELSE /\ StartAiTask("submit_answer")
            /\ UNCHANGED <<current_question, ref_enabled>>
    /\ UNCHANGED quizFrame

\* the skills shown by SkillPathWidget.update_skills
ShownSkills ==
    IF pdf_file_basenames = <<>> THEN {}
    ELSE {pdf_file_basenames[i] : i \in 1..Len(pdf_file_basenames)}
             \cup {ALL_MATERIALS_SKILL_NAME}

\* a quiz view that is shown again with the reference button as it was left
StartQuizForSkillKeepsButton(skill_name) ==
    /\ ~ closed /\ view = 0 /\ skill_name \in ShownSkills
    /\ IF ~ quiz_active
       THEN /\ dialog' = "Upload Needed"
            /\ view' = 2
            /\ UNCHANGED <<current_skill_name, feedback_shown, ref_enabled, buttons,
                           back_enabled>>
       ELSE IF \/ skill_name # ALL_MATERIALS_SKILL_NAME
                   /\ skill_name \notin uploaded_file_references
               \/ skill_name = ALL_MATERIALS_SKILL_NAME /\ uploaded_file_references = {}
       THEN /\ dialog' = "Error"
            /\ UNCHANGED <<view, current_skill_name, feedback_shown, ref_enabled, buttons,
                           back_enabled>>
       ELSE IF ThreadBusy
       THEN /\ dialog' = "Busy"
            /\ UNCHANGED <<view, current_skill_name, feedback_shown, ref_enabled, buttons,
                           back_enabled>>
       ELSE /\ current_skill_name' = skill_name
            /\ view' = 1
            /\ feedback_shown' = FALSE
            /\ UNCHANGED ref_enabled
            /\ buttons' = "initial"
            /\ back_enabled' = TRUE
            /\ dialog' = "none"
    /\ UNCHANGED <<pdf_file_paths, pdf_file_basenames, uploaded_file_references,
                   current_question, quiz_active, gemini_configured, model, api_key,
                   selected_model_name, current_reference, skill_progress, total_score,
                   level_up_occurred, thread, worker>>
    /\ UNCHANGED <<controls_enabled, process_enabled, saved_progress>>
    /\ UNCHANGED backgroundVars

\* start_quiz_for_skill (a click on a skill of the path) with show_quiz_view
StartQuizForSkill(skill_name) ==
    /\ ~ closed /\ view = 0 /\ skill_name \in ShownSkills
    /\ IF ~ quiz_active
       THEN /\ dialog' = "Upload Needed"
            /\ view' = 2
            /\ UNCHANGED <<current_skill_name, feedback_shown, ref_enabled, buttons,
                           back_enabled>>
       ELSE IF \/ skill_name # ALL_MATERIALS_SKILL_NAME
                   /\ skill_name \notin uploaded_file_references
               \/ skill_name = ALL_MATERIALS_SKILL_NAME /\ uploaded_file_references = {}
       THEN /\ dialog' = "Error"
            /\ UNCHANGED <<view, current_skill_name, feedback_shown, ref_enabled, buttons,
                           back_enabled>>
       ELSE IF ThreadBusy
       THEN /\ dialog' = "Busy"
            /\ UNCHANGED <<view, current_skill_name, feedback_shown, ref_enabled, buttons,
                           back_enabled>>
       ELSE /\ current_skill_name' = skill_name
            /\ view' = 1
            /\ feedback_shown' = FALSE
            /\ ref_enabled' = FALSE
            /\ buttons' = "initial"
            /\ back_enabled' = TRUE
            /\ dialog' = "none"
    /\ UNCHANGED <<pdf_file_paths, pdf_file_basenames, uploaded_file_references,
                   current_question, quiz_active, gemini_configured, model, api_key,
                   selected_model_name, current_reference, skill_progress, total_score,
                   level_up_occurred, thread, worker>>
    /\ UNCHANGED <<controls_enabled, process_enabled, saved_progress>>
    /\ UNCHANGED backgroundVars

\* view_reference: the View Ref button; the file is opened outside the program
ViewReference ==
    /\ ~ closed /\ view = 1 /\ ref_enabled
    /\ dialog' = (IF current_reference = Absent THEN "No Reference"
                  ELSE IF ~ (0 <= current_reference[1].doc_index
                             /\ current_reference[1].doc_index < Len(pdf_file_paths))
                  THEN "Reference Error"
                  ELSE "none")
    /\ UNCHANGED <<appVars, view, buttons, back_enabled, controls_enabled,
                   process_enabled, ref_enabled, feedback_shown, saved_progress>>
    /\ UNCHANGED backgroundVars

\* closeEvent; quit_anyway is the answer to "A task is running. Quit anyway?",
\* saved whether save_config could write the file
CloseEvent(quit_anyway, saved) ==
    /\ ~ closed
    /\ IF ThreadBusy /\ ~ quit_anyway
       THEN /\ dialog' = "Confirm Exit"
            /\ UNCHANGED <<w_is_running, t_quit, saved_progress, closed>>
       ELSE /\ w_is_running' =
                  (IF ThreadBusy /\ worker # Absent
                   THEN [w_is_running EXCEPT ![worker[1]] = FALSE]
                   ELSE w_is_running)
            /\ t_quit' = (IF ThreadBusy THEN [t_quit EXCEPT ![thread[1]] = TRUE]
                          ELSE t_quit)
            /\ saved_progress' = (IF saved THEN ProgressSection(skill_progress)
                                  ELSE saved_progress)
            /\ dialog' = (IF ~ saved THEN "Config Save Error"
                          ELSE IF ThreadBusy THEN "Confirm Exit" ELSE "none")
            /\ closed' = TRUE
    /\ UNCHANGED <<appVars, view, buttons, back_enabled, controls_enabled,
                   process_enabled, ref_enabled, feedback_shown>>
    /\ UNCHANGED <<t_state, w_kind, w_pc, w_task, w_resp, uploadVars,
                   queue>>

\* thread.terminate() of closeEvent, when thread.wait(1500) timed out: the
\* thread ends wherever its worker is
Terminate(t) ==
    /\ closed /\ IsRunning(t) /\ t_quit[t] /\ ~ w_is_running[t]
    /\ w_pc[t] # "done"
    /\ t_state' = [t_state EXCEPT ![t] = "finished"]
    /\ w_pc' = [w_pc EXCEPT ![t] = "done"]
    /\ queue' = Append(queue, Signal("thread_finished", t, <<>>))
    /\ w_resp' = [w_resp EXCEPT ![t] = Absent]
    /\ UNCHANGED <<appVars, uiVars, saved_progress, t_quit, w_kind, w_is_running,
                   w_task, uploadVars, closed>>

(* ------------------------------------------------------------------ *)
(* AIWorker.run, on its own thread; each action is one stretch of run  *)
(* between two reads of _is_running or blocking calls                  *)
(* ------------------------------------------------------------------ *)
mainVars == <<appVars, uiVars, saved_progress, closed>>

AtPc(t, kind, pc) == IsRunning(t) /\ w_kind[t] = kind /\ w_pc[t] = pc

Goto(t, pc) == w_pc' = [w_pc EXCEPT ![t] = pc]

Emit(sig, t, arg) == queue' = Append(queue, Signal(sig, t, arg))

AiError(t) == [task |-> w_task[t], text |-> <<>>]

\* "if not self._is_running or not self.model" at the top of run
AiRunStart(t) ==
    /\ AtPc(t, "ai", "start")
    /\ IF ~ w_is_running[t]
       THEN Emit("error_occurred", t, AiError(t)) /\ Goto(t, "done")
       ELSE Goto(t, "before_call") /\ UNCHANGED queue
    /\ UNCHANGED <<mainVars, threadVars, w_kind, w_is_running, w_task, w_resp, uploadVars>>

\* "if not self._is_running" before the API call
AiBeforeCall(t) ==
    /\ AtPc(t, "ai", "before_call")
    /\ IF ~ w_is_running[t]
       THEN Emit("error_occurred", t, AiError(t)) /\ Goto(t, "done")
       ELSE Goto(t, "call") /\ UNCHANGED queue
    /\ UNCHANGED <<mainVars, threadVars, w_kind, w_is_running, w_task, w_resp, uploadVars>>

\* model.generate_content returns a response with a text, returns a response
\* the handling below rejects (blocked, no candidates), or raises
AiGenerateContent(t, outcome) ==
    /\ AtPc(t, "ai", "call")
    /\ IF outcome.kind = "raises"
       THEN Goto(t, "raised") /\ UNCHANGED w_resp
       ELSE IF outcome.kind = "rejected"
       THEN Goto(t, "returned") /\ w_resp' = [w_resp EXCEPT ![t] = Absent]
       ELSE Goto(t, "returned") /\ w_resp' = [w_resp EXCEPT ![t] = Some(outcome.text)]
    /\ UNCHANGED <<mainVars, threadVars, w_kind, w_is_running, w_task, uploadVars, queue>>

\* the locals of run are gone when run returns or raises
Forget(t) == w_resp' = [w_resp EXCEPT ![t] = Absent]

\* "if not self._is_running" after the API call, then the response handling
AiAfterCall(t) ==
    /\ AtPc(t, "ai", "returned")
    /\ IF ~ w_is_running[t]
       THEN Emit("error_occurred", t, AiError(t)) /\ Goto(t, "done") /\ Forget(t)
       ELSE IF w_resp[t] = Absent
       THEN Goto(t, "raised") /\ UNCHANGED <<queue, w_resp>>
       ELSE Goto(t, "result_check") /\ UNCHANGED <<queue, w_resp>>
    /\ UNCHANGED <<mainVars, threadVars, w_kind, w_is_running, w_task, uploadVars>>

\* "if self._is_running:" guarding result_ready.emit
AiResultCheck(t) ==
    /\ AtPc(t, "ai", "result_check")
    /\ IF w_is_running[t]
       THEN Goto(t, "emit_result") /\ UNCHANGED w_resp
       ELSE Goto(t, "done") /\ Forget(t)
    /\ UNCHANGED <<mainVars, threadVars, w_kind, w_is_running, w_task, uploadVars, queue>>

\* self.result_ready.emit(self.task_identifier, response_text.strip())
AiEmitResult(t) ==
    /\ AtPc(t, "ai", "emit_result")
    /\ Emit("result_ready", t, [task |-> w_task[t], text |-> Strip(w_resp[t][1])])
    /\ Goto(t, "done")
    /\ Forget(t)
    /\ UNCHANGED <<mainVars, threadVars, w_kind, w_is_running, w_task, uploadVars>>

\* "if self._is_running:" of an except clause, of either worker class
ErrorCheck(t) ==
    /\ IsRunning(t) /\ w_pc[t] = "raised"
    /\ IF w_is_running[t] THEN Goto(t, "emit_error") ELSE Goto(t, "done")
    /\ UNCHANGED <<mainVars, threadVars, w_kind, w_is_running, w_task, w_resp, uploadVars,
                   queue>>

\* self.error_occurred.emit of an except clause
EmitError(t) ==
    /\ IsRunning(t) /\ w_pc[t] = "emit_error"
    /\ Emit("error_occurred", t, AiError(t))
    /\ Goto(t, "done")
    /\ UNCHANGED <<mainVars, threadVars, w_kind, w_is_running, w_task, w_resp, uploadVars>>

\* the event loop of a thread ends after quit(), once run has returned; the
\* thread emits finished
ThreadFinished(t) ==
    /\ IsRunning(t) /\ t_quit[t] /\ w_pc[t] = "done"
    /\ t_state' = [t_state EXCEPT ![t] = "finished"]
    /\ Emit("thread_finished", t, <<>>)
    /\ UNCHANGED <<mainVars, t_quit, workerVars, uploadVars>>

(* ------------------------------------------------------------------ *)
(* PDFUploadWorker.run                                                 *)
(* ------------------------------------------------------------------ *)
uploadFrame == <<mainVars, threadVars, w_kind, w_is_running, w_task, w_resp, u_files>>

\* "if not self._is_running" at the top of run
UploadRunStart(t) ==
    /\ AtPc(t, "upload", "start")
    /\ IF ~ w_is_running[t]
       THEN Emit("error_occurred", t, AiError(t)) /\ Goto(t, "done")
       ELSE Goto(t, "loop") /\ UNCHANGED queue
    /\ UNCHANGED <<uploadFrame, u_i, u_attempts, u_fstate, u_temp, u_remote>>

\* the head of the for loop with its "if not self._is_running: break"
UploadLoop(t) ==
    /\ AtPc(t, "upload", "loop")
    /\ IF u_i[t] > Len(u_files[t]) \/ ~ w_is_running[t]
       THEN Goto(t, "after_loop")
       ELSE Goto(t, "upload")
    /\ UNCHANGED <<uploadFrame, u_i, u_attempts, u_fstate, u_temp, u_remote, queue>>

\* genai.upload_file
UploadFile(t, outcome) ==
    /\ AtPc(t, "upload", "upload")
    /\ IF outcome = "raises"
       THEN Goto(t, "raised") /\ UNCHANGED <<u_fstate, u_remote>>
       ELSE /\ Goto(t, "uploaded")
            /\ u_fstate' = [u_fstate EXCEPT ![t] = outcome]
            /\ u_remote' = [u_remote EXCEPT ![t] = "held"]
    /\ UNCHANGED <<uploadFrame, u_i, u_attempts, u_temp, queue>>

\* "if not self._is_running: break" after the upload call, then attempts = 0
UploadAfterUpload(t) ==
    /\ AtPc(t, "upload", "uploaded")
    /\ IF ~ w_is_running[t]
       THEN Goto(t, "after_loop") /\ UNCHANGED u_attempts
       ELSE Goto(t, "poll") /\ u_attempts' = [u_attempts EXCEPT ![t] = 0]
    /\ UNCHANGED <<uploadFrame, u_i, u_fstate, u_temp, u_remote, queue>>

\* the condition of the while loop, then time.sleep(wait_time)
UploadPoll(t) ==
    /\ AtPc(t, "upload", "poll")
    /\ IF u_fstate[t] = "PROCESSING" /\ u_attempts[t] < max_attempts /\ w_is_running[t]
       THEN Goto(t, "poll_wake")
       ELSE Goto(t, "stop_check")
    /\ UNCHANGED <<uploadFrame, u_i, u_attempts, u_fstate, u_temp, u_remote, queue>>

\* a status request that raised is not counted
UploadGetFileFailureUncounted(t, outcome) ==
    /\ AtPc(t, "upload", "poll_wake")
    /\ IF ~ w_is_running[t]
       THEN Goto(t, "stop_check") /\ UNCHANGED <<u_fstate, u_attempts>>
       ELSE /\ Goto(t, "poll")
            /\ u_fstate' = (IF outcome = "raises" THEN u_fstate
                            ELSE [u_fstate EXCEPT ![t] = outcome])
            /\ u_attempts' = (IF outcome = "raises" THEN u_attempts
                              ELSE [u_attempts EXCEPT ![t] = @ + 1])
    /\ UNCHANGED <<uploadFrame, u_i, u_temp, u_remote, queue>>

\* "if not self._is_running: break", genai.get_file, attempts += 1
UploadGetFile(t, outcome) ==
    /\ AtPc(t, "upload", "poll_wake")
    /\ IF ~ w_is_running[t]
       THEN Goto(t, "stop_check") /\ UNCHANGED <<u_fstate, u_attempts>>
       ELSE /\ Goto(t, "poll")
            /\ u_fstate' = (IF outcome = "raises" THEN u_fstate
                            ELSE [u_fstate EXCEPT ![t] = outcome])
            /\ u_attempts' = [u_attempts EXCEPT ![t] = @ + 1]
    /\ UNCHANGED <<uploadFrame, u_i, u_temp, u_remote, queue>>

\* "if not self._is_running:" after the while loop, with its delete_file
UploadStopCheck(t) ==
    /\ AtPc(t, "upload", "stop_check")
    /\ IF ~ w_is_running[t]
       THEN /\ Goto(t, "after_loop")
            /\ u_remote' = (IF u_fstate[t] # "FAILED"
                            THEN [u_remote EXCEPT ![t] = "deleted"] ELSE u_remote)
       ELSE Goto(t, "active_check") /\ UNCHANGED u_remote
    /\ UNCHANGED <<uploadFrame, u_i, u_attempts, u_fstate, u_temp, queue>>

\* "if uploaded_file.state.name != 'ACTIVE'" with its delete_file and raise,
\* else the append and file_processed.emit
UploadActiveCheck(t) ==
    /\ AtPc(t, "upload", "active_check")
    /\ IF u_fstate[t] # "ACTIVE"
       THEN /\ Goto(t, "raised")
            /\ u_remote' = [u_remote EXCEPT ![t] = "deleted"]
            /\ UNCHANGED <<u_temp, u_i, queue>>
       ELSE /\ Goto(t, "loop")
            /\ u_temp' = [u_temp EXCEPT ![t] = Append(@, u_files[t][u_i[t]])]
            /\ Emit("file_processed", t, u_files[t][u_i[t]])
            /\ u_i' = [u_i EXCEPT ![t] = @ + 1]
            /\ UNCHANGED u_remote
    /\ UNCHANGED <<uploadFrame, u_attempts, u_fstate>>

\* "if self._is_running:" after the for loop
UploadAfterLoop(t) ==
    /\ AtPc(t, "upload", "after_loop")
    /\ IF ~ w_is_running[t] THEN Goto(t, "done")
       ELSE IF u_temp[t] = <<>> /\ u_files[t] # <<>> THEN Goto(t, "raised")
       ELSE Goto(t, "emit_finished")
    /\ UNCHANGED <<uploadFrame, u_i, u_attempts, u_fstate, u_temp, u_remote, queue>>

\* self.finished.emit(temp_uploaded_references)
UploadEmitFinished(t) ==
    /\ AtPc(t, "upload", "emit_finished")
    /\ Emit("finished", t, u_temp[t])
    /\ Goto(t, "done")
    /\ UNCHANGED <<uploadFrame, u_i, u_attempts, u_fstate, u_temp, u_remote>>

(* ------------------------------------------------------------------ *)
(* Slots of the main thread, run one at a time from the queue. A slot  *)
(* runs to its end before the next queued invocation is taken: the     *)
(* message boxes and processEvents calls inside a slot are taken to    *)
(* deliver no queued invocation.                                       *)
(* ------------------------------------------------------------------ *)
HintPrefix == <<"H", "i", "n", "t", ":", "\n">>
ErrorText == <<"E", "r", "r", "o", "r">>

\* the index of the tag kept in every mode
DisplayFeedbackUnmapped(text) ==
    LET match == REFERENCE_REGEX_search(text)
        actual_doc_index == IF match = Absent THEN -1 ELSE match[1].doc
        valid == match # Absent /\ 0 <= actual_doc_index
                    /\ actual_doc_index < Len(pdf_file_paths)
    IN /\ current_reference' =
             (IF valid THEN Some([doc_index |-> actual_doc_index, page |-> match[1].page])
              ELSE Absent)
       /\ ref_enabled' = valid
       /\ feedback_shown' = (text # <<>>)

\* the index stored without the test of its range
DisplayFeedbackUnchecked(text) ==
    LET match == REFERENCE_REGEX_search(text)
        actual_doc_index ==
            IF match = Absent THEN -1
            ELSE IF IsAllMaterialsMode THEN match[1].doc
            ELSE IF InSeq(pdf_file_basenames, current_skill_name)
            THEN IndexOf(pdf_file_basenames, current_skill_name) - 1
            ELSE -1
        valid == match # Absent
    IN /\ current_reference' =
             (IF valid THEN Some([doc_index |-> actual_doc_index, page |-> match[1].page])
              ELSE Absent)
       /\ ref_enabled' = valid
       /\ feedback_shown' = (text # <<>>)

\* display_feedback: the reference button and current_reference
DisplayFeedback(text) ==
    LET match == REFERENCE_REGEX_search(text)
        actual_doc_index ==
            IF match = Absent THEN -1
            ELSE IF IsAllMaterialsMode THEN match[1].doc
            ELSE IF InSeq(pdf_file_basenames, current_skill_name)
            THEN IndexOf(pdf_file_basenames, current_skill_name) - 1
            ELSE -1
        valid == match # Absent /\ 0 <= actual_doc_index
                    /\ actual_doc_index < Len(pdf_file_paths)
    IN /\ current_reference' =
             (IF valid THEN Some([doc_index |-> actual_doc_index, page |-> match[1].page])
              ELSE Absent)
       /\ ref_enabled' = valid
       /\ feedback_shown' = (text # <<>>)

\* thread.quit, connected to the same signal after the handler
\* thread.quit is not connected to the signal
QuitNotCalled(t) == t_quit' = t_quit

Quit(t) == t_quit' = [t_quit EXCEPT ![t] = TRUE]

\* the guard of _handle_ai_result on self.worker
AiWorkerValid ==
    worker # Absent /\ w_kind[worker[1]] = "ai" /\ w_is_running[worker[1]]

\* whether _update_current_skill_data stores
Stores == current_skill_name # None /\ current_skill_name # ALL_MATERIALS_SKILL_NAME

\* the submit_answer branch of _handle_ai_result; saved is whether save_config
\* could write the file
ApplyGrade(result_text, saved) ==
    LET feedback_type == FeedbackType(result_text)
        progress == GradedProgress(skill_progress, current_skill_name, feedback_type)
        before == GetCurrentSkillData(skill_progress, current_skill_name)
        after == GradedSkillData(skill_progress, current_skill_name, feedback_type)
    IN /\ skill_progress' = progress
       /\ level_up_occurred' = (~ IsAllMaterialsMode /\ after.level > before.level)
       /\ total_score' = (IF Stores THEN RecalculatedTotal(progress) ELSE total_score)
       /\ saved_progress' = (IF Stores /\ saved THEN ProgressSection(progress)
                             ELSE saved_progress)
       /\ dialog' = (IF Stores /\ ~ saved THEN "Config Save Error" ELSE "none")
       /\ DisplayFeedback(result_text)
       /\ current_question' = Absent
       /\ buttons' = "feedback"
       /\ back_enabled' = TRUE

\* _handle_ai_result, then thread.quit
HandleAiResult(saved) ==
    /\ queue # <<>> /\ Head(queue).sig = "result_ready"
    /\ LET task_identifier == Head(queue).arg.task
           result_text == Head(queue).arg.text
       IN IF ~ AiWorkerValid
          THEN /\ dialog' = "none"
               /\ UNCHANGED <<current_question, current_reference, skill_progress,
                              total_score, level_up_occurred, saved_progress, buttons,
                              back_enabled, ref_enabled, feedback_shown>>
          ELSE IF task_identifier = "next_question"
          THEN /\ current_question' = Some(result_text)
               /\ feedback_shown' = TRUE
               /\ buttons' = "question"
               /\ back_enabled' = TRUE
               /\ dialog' = "none"
               /\ UNCHANGED <<current_reference, skill_progress, total_score,
                              level_up_occurred, saved_progress, ref_enabled>>
          ELSE IF task_identifier = "get_guidance"
          THEN /\ DisplayFeedback(HintPrefix \o result_text)
               /\ buttons' = "question"
               /\ back_enabled' = TRUE
               /\ dialog' = "none"
               /\ UNCHANGED <<current_question, skill_progress, total_score,
                              level_up_occurred, saved_progress>>
          ELSE ApplyGrade(result_text, saved)
    /\ Quit(Head(queue).src)
    /\ queue' = Tail(queue)
    /\ UNCHANGED <<pdf_file_paths, pdf_file_basenames, uploaded_file_references,
                   current_skill_name, quiz_active, gemini_configured, model, api_key,
                   selected_model_name, thread, worker, view, controls_enabled,
                   process_enabled, t_state, workerVars, uploadVars, closed>>

\* a question is lost on every failed task
QuestionClearedOnError(task_identifier, question) == Absent

\* current_question after _handle_ai_error: only a failed next_question clears it
QuestionAfterError(task_identifier, question) ==
    IF task_identifier = "next_question" THEN Absent ELSE question

\* _handle_ai_error, then thread.quit
HandleAiError ==
    /\ queue # <<>> /\ Head(queue).sig = "error_occurred"
    /\ w_kind[Head(queue).src] = "ai"
    /\ IF worker = Absent \/ w_kind[worker[1]] # "ai"
       THEN /\ dialog' = "none"
            /\ UNCHANGED <<current_question, current_reference, buttons,
                           back_enabled, ref_enabled, feedback_shown>>
       ELSE /\ dialog' = "AI Error"
            /\ DisplayFeedback(ErrorText)
            /\ current_question' =
                  QuestionAfterError(Head(queue).arg.task, current_question)
            /\ buttons' = (IF Head(queue).arg.task = "next_question"
                           THEN "initial" ELSE "question")
            /\ back_enabled' = TRUE
    /\ Quit(Head(queue).src)
    /\ queue' = Tail(queue)
    /\ UNCHANGED <<pdf_file_paths, pdf_file_basenames, uploaded_file_references,
                   current_skill_name, quiz_active, gemini_configured, model, api_key,
                   selected_model_name, skill_progress, total_score, level_up_occurred,
                   thread, worker, view, controls_enabled, process_enabled,
                   saved_progress, t_state, workerVars, uploadVars, closed>>

\* the reference of a file is stored as soon as the file is processed
HandleFileProcessedStores ==
    /\ queue # <<>> /\ Head(queue).sig = "file_processed"
    /\ queue' = Tail(queue)
    /\ dialog' = "none"
    /\ uploaded_file_references' = uploaded_file_references \cup {Head(queue).arg}
    /\ UNCHANGED <<pdf_file_paths, pdf_file_basenames, current_skill_name,
                   current_question, quiz_active, gemini_configured, model, api_key,
                   selected_model_name, current_reference, skill_progress, total_score,
                   level_up_occurred, thread, worker>>
    /\ UNCHANGED <<view, buttons, back_enabled, controls_enabled, process_enabled,
                   ref_enabled, feedback_shown, saved_progress, closed>>
    /\ UNCHANGED <<threadVars, workerVars, uploadVars>>

\* _handle_file_processed
HandleFileProcessed ==
    /\ queue # <<>> /\ Head(queue).sig = "file_processed"
    /\ queue' = Tail(queue)
    /\ dialog' = "none"
    /\ UNCHANGED <<appVars, view, buttons, back_enabled, controls_enabled, process_enabled,
                   ref_enabled, feedback_shown, saved_progress, closed>>
    /\ UNCHANGED <<threadVars, workerVars, uploadVars>>

\* _handle_upload_finished, then thread.quit
HandleUploadFinished ==
    /\ queue # <<>> /\ Head(queue).sig = "finished"
    /\ LET uploaded_file_list == Head(queue).arg
           names == {uploaded_file_list[i] : i \in 1..Len(uploaded_file_list)}
       IN IF worker = Absent \/ w_kind[worker[1]] # "upload" \/ ~ w_is_running[worker[1]]
          THEN /\ uploaded_file_references' = {}
               /\ quiz_active' = FALSE
               /\ dialog' = "none"
          ELSE /\ uploaded_file_references' = names
               /\ quiz_active' = (names # {})
               /\ dialog' = "Upload Complete"
    /\ Quit(Head(queue).src)
    /\ queue' = Tail(queue)
    /\ UNCHANGED <<pdf_file_paths, pdf_file_basenames, current_skill_name,
                   current_question, gemini_configured, model, api_key,
                   selected_model_name, current_reference, skill_progress, total_score,
                   level_up_occurred, thread, worker>>
    /\ UNCHANGED <<view, buttons, back_enabled, controls_enabled, process_enabled,
                   ref_enabled, feedback_shown, saved_progress, t_state, workerVars,
                   uploadVars, closed>>

\* _handle_upload_error, then thread.quit
HandleUploadError ==
    /\ queue # <<>> /\ Head(queue).sig = "error_occurred"
    /\ w_kind[Head(queue).src] = "upload"
    /\ dialog' = "Upload Error"
    /\ uploaded_file_references' = {}
    /\ quiz_active' = FALSE
    /\ Quit(Head(queue).src)
    /\ queue' = Tail(queue)
    /\ UNCHANGED <<pdf_file_paths, pdf_file_basenames, current_skill_name,
                   current_question, gemini_configured, model, api_key,
                   selected_model_name, current_reference, skill_progress, total_score,
                   level_up_occurred, thread, worker>>
    /\ UNCHANGED <<view, buttons, back_enabled, controls_enabled, process_enabled,
                   ref_enabled, feedback_shown, saved_progress, t_state, workerVars,
                   uploadVars, closed>>

\* deleteLater of a thread and its worker
Deleted(f, t, initial) == [f EXCEPT ![t] = initial]

\* _on_thread_finished, run for the finished signal of any thread, with the
\* deleteLater calls connected to the same signal
OnThreadFinished ==
    /\ queue # <<>> /\ Head(queue).sig = "thread_finished"
    /\ thread' = Absent
    /\ worker' = Absent
    /\ controls_enabled' = TRUE
    /\ back_enabled' = TRUE
    /\ process_enabled' = (gemini_configured /\ pdf_file_paths # <<>>)
    /\ buttons' = (IF view # 1 THEN buttons
                   ELSE IF Truthy(current_question) THEN "question"
                   ELSE IF feedback_shown THEN "feedback"
                   ELSE "initial")
    /\ LET t == Head(queue).src
       IN /\ t_state' = Deleted(t_state, t, "deleted")
          /\ t_quit' = Deleted(t_quit, t, FALSE)
          /\ w_kind' = Deleted(w_kind, t, "none")
          /\ w_pc' = Deleted(w_pc, t, "none")
          /\ w_is_running' = Deleted(w_is_running, t, FALSE)
          /\ w_task' = Deleted(w_task, t, "none")
          /\ w_resp' = Deleted(w_resp, t, Absent)
          /\ u_files' = Deleted(u_files, t, <<>>)
          /\ u_i' = Deleted(u_i, t, 0)
          /\ u_attempts' = Deleted(u_attempts, t, 0)
          /\ u_fstate' = Deleted(u_fstate, t, "none")
          /\ u_temp' = Deleted(u_temp, t, <<>>)
          /\ u_remote' = Deleted(u_remote, t, "none")
    /\ queue' = Tail(queue)
    /\ UNCHANGED <<pdf_file_paths, pdf_file_basenames, uploaded_file_references,
                   current_skill_name, current_question, quiz_active, gemini_configured,
                   model, api_key, selected_model_name, current_reference, skill_progress,
                   total_score, level_up_occurred>>
    /\ dialog' = "none"
    /\ UNCHANGED <<view, ref_enabled, feedback_shown, saved_progress, closed>>

(* ------------------------------------------------------------------ *)
(* Steps of the user, of the worker threads and of the main thread's   *)
(* queue, over the inputs a specification explores                     *)
(* ------------------------------------------------------------------ *)
PathA == [dir |-> "d1", base |-> "a.pdf"]

SettingsStep(keys, names, saves, ai_outcomes, selections, removals) ==
    \/ ShowSettingsView
    \/ \E key \in keys, name \in names, saved \in saves, ai_ok \in ai_outcomes :
          ApplyAndSaveConfig(key, name, saved, ai_ok)
    \/ \E files \in selections : AddPdfs(files)
    \/ \E basenames_to_remove \in removals : RemovePdfsByName(basenames_to_remove)
    \/ ClearPdfs
    \/ ProcessPdfs

QuizStep(skills) ==
    \/ ShowSkillPathView
    \/ \E skill_name \in skills : StartQuizForSkill(skill_name)
    \/ NextQuestion
    \/ GetGuidance
    \/ \E user_answer \in Answers : SubmitAnswer(user_answer)
    \/ ViewReference

CloseStep(saves) ==
    \E quit_anyway \in BOOLEAN, saved \in saves : CloseEvent(quit_anyway, saved)

AiWorkerStep ==
    \E t \in Slots :
        \/ AiRunStart(t)
        \/ AiBeforeCall(t)
        \/ \E outcome \in ApiOutcomes(w_task[t]) : AiGenerateContent(t, outcome)
        \/ AiAfterCall(t)
        \/ AiResultCheck(t)
        \/ AiEmitResult(t)

UploadWorkerStep ==
    \E t \in Slots :
        \/ UploadRunStart(t)
        \/ UploadLoop(t)
        \/ \E outcome \in FileApiOutcomes : UploadFile(t, outcome)
        \/ UploadAfterUpload(t)
        \/ UploadPoll(t)
        \/ \E outcome \in FileApiOutcomes : UploadGetFile(t, outcome)
        \/ UploadStopCheck(t)
        \/ UploadActiveCheck(t)
        \/ UploadAfterLoop(t)
        \/ UploadEmitFinished(t)

ThreadStep ==
    \E t \in Slots :
        \/ ErrorCheck(t)
        \/ EmitError(t)
        \/ ThreadFinished(t)
        \/ Terminate(t)

AiQueueStep(saves) ==
    \/ \E saved \in saves : HandleAiResult(saved)
    \/ HandleAiError

UploadQueueStep ==
    \/ HandleFileProcessed
    \/ HandleUploadFinished
    \/ HandleUploadError

(* ------------------------------------------------------------------ *)
(* The application from its construction, with one file to pick, the   *)
(* settings "key" and the default model to apply, and a config file    *)
(* that can be written                                                 *)
(* ------------------------------------------------------------------ *)
Next ==
    \/ SettingsStep({"key"}, {DEFAULT_MODEL}, {TRUE}, BOOLEAN, {<<PathA>>}, {{"a.pdf"}})
    \/ QuizStep({"a.pdf", ALL_MATERIALS_SKILL_NAME})
    \/ CloseStep({TRUE})
    \/ AiWorkerStep
    \/ UploadWorkerStep
    \/ ThreadStep
    \/ AiQueueStep({TRUE})
    \/ UploadQueueStep
    \/ OnThreadFinished

Spec == Init /\ [][Next]_vars


(* ------------------------------------------------------------------ *)
(* The quiz of an uploaded material                                    *)
(* ------------------------------------------------------------------ *)
\* The state Spec reaches from the stored configuration once a.pdf was added in
\* the settings and uploaded and the skill path is shown again (the upload's
\* thread is deleted): the start of the quiz, with the whole budget of threads
\* left for the tasks of the quiz. add_pdfs gave a.pdf its default progress;
\* nothing was saved since the configuration was loaded.
UploadedConfig ==
    /\ api_key = StoredConfigFile.api_key
    /\ selected_model_name = StoredConfigFile.model
    /\ gemini_configured = TRUE
    /\ model = "model"
    /\ skill_progress = [n \in {"a.pdf"} \cup DOMAIN StoredConfigFile.progress |->
                           IF n = "a.pdf" THEN DefaultSkillData
                           ELSE StoredConfigFile.progress[n]]
    /\ total_score = RecalculatedTotal(StoredConfigFile.progress)
    /\ saved_progress = StoredConfigFile.progress

InitQuiz ==
    /\ UploadedConfig
    /\ NoThreads
    /\ pdf_file_paths = <<PathA>>
    /\ pdf_file_basenames = <<"a.pdf">>
    /\ uploaded_file_references = {"a.pdf"}
    /\ current_skill_name = None
    /\ current_question = Absent
    /\ quiz_active = TRUE
    /\ current_reference = Absent
    /\ level_up_occurred = FALSE
    /\ view = 0
    /\ buttons = "unset"
    /\ back_enabled = TRUE
    /\ controls_enabled = TRUE
    /\ process_enabled = TRUE
    /\ ref_enabled = FALSE
    /\ feedback_shown = FALSE
    /\ dialog = "none"
    /\ closed = FALSE

NextQuiz ==
    \/ QuizStep({"a.pdf", ALL_MATERIALS_SKILL_NAME})
    \/ CloseStep({TRUE})
    \/ AiWorkerStep
    \/ ThreadStep
    \/ AiQueueStep({TRUE})
    \/ OnThreadFinished

SpecQuiz == InitQuiz /\ [][NextQuiz]_vars

(* ------------------------------------------------------------------ *)
(* The grading of the answers of one skill                             *)
(* ------------------------------------------------------------------ *)
\* The worker of a submit_answer task has emitted result_ready with the stripped
\* text of a reply; the signal waits in the queue of the main thread.
ReplyQueued(reply) ==
    queue = <<Signal("result_ready", 2, [task |-> "submit_answer", text |-> Strip(reply)])>>

\* The state SpecQuiz reaches in the quiz of a.pdf with no answer graded yet:
\* the first thread asked the question and is deleted, the answer is submitted
\* and the worker of the second thread has emitted the reply of the model.
InitGrade ==
    /\ UploadedConfig
    /\ pdf_file_paths = <<PathA>>
    /\ pdf_file_basenames = <<"a.pdf">>
    /\ uploaded_file_references = {"a.pdf"}
    /\ current_skill_name = "a.pdf"
    /\ current_question = Some(Strip(ReplyHint))
    /\ quiz_active = TRUE
    /\ current_reference = Absent
    /\ level_up_occurred = FALSE
    /\ view = 1
    /\ buttons = "processing"
    /\ back_enabled = FALSE
    /\ controls_enabled = FALSE
    /\ process_enabled = FALSE
    /\ ref_enabled = FALSE
    /\ feedback_shown = TRUE
    /\ dialog = "none"
    /\ closed = FALSE
    /\ thread = Some(2)
    /\ worker = Some(2)
    /\ t_state = [t \in Slots |-> IF t = 1 THEN "deleted"
                                  ELSE IF t = 2 THEN "running" ELSE "none"]
    /\ t_quit = [t \in Slots |-> FALSE]
    /\ w_kind = [t \in Slots |-> IF t = 2 THEN "ai" ELSE "none"]
    /\ w_pc = [t \in Slots |-> IF t = 2 THEN "done" ELSE "none"]
    /\ w_is_running = [t \in Slots |-> t = 2]
    /\ w_task = [t \in Slots |-> IF t = 2 THEN "submit_answer" ELSE "none"]
    /\ w_resp = [t \in Slots |-> Absent]
    /\ u_files = [t \in Slots |-> <<>>]
    /\ u_i = [t \in Slots |-> IF t = 2 THEN 1 ELSE 0]
    /\ u_attempts = [t \in Slots |-> 0]
    /\ u_fstate = [t \in Slots |-> "none"]
    /\ u_temp = [t \in Slots |-> <<>>]
    /\ u_remote = [t \in Slots |-> "none"]
    /\ \E reply \in Replies : ReplyQueued(reply)

\* The round up to the next graded answer, seen from the main thread's queue:
\* the next question is asked, its answer is submitted and the worker of the
\* submit_answer task emits result_ready with the reply. The threads of the
\* round are not counted: the round is told by the thread of the first one.
NextReply(reply) ==
    /\ queue = <<>>
    /\ HasSkillData(skill_progress, current_skill_name)
    /\ skill_progress[current_skill_name].questions_answered < MaxGrades
    /\ current_question' = Some(Strip(ReplyHint))
    /\ buttons' = "processing"
    /\ back_enabled' = FALSE
    /\ ref_enabled' = FALSE
    /\ feedback_shown' = TRUE
    /\ dialog' = "none"
    /\ t_quit' = [t_quit EXCEPT ![worker[1]] = FALSE]
    /\ queue' = <<Signal("result_ready", worker[1],
                         [task |-> "submit_answer", text |-> Strip(reply)])>>
    /\ UNCHANGED <<pdf_file_paths, pdf_file_basenames, uploaded_file_references,
                   current_skill_name, quiz_active, gemini_configured, model, api_key,
                   selected_model_name, current_reference, skill_progress, total_score,
                   level_up_occurred, thread, worker, view, controls_enabled,
                   process_enabled, saved_progress, t_state, workerVars, uploadVars,
                   closed>>

NextGrade ==
    \/ \E reply \in Replies : NextReply(reply)
    \/ HandleAiResult(TRUE)

SpecGrade == InitGrade /\ [][NextGrade]_vars


(* ------------------------------------------------------------------ *)
(* Properties of the grading                                           *)
(* ------------------------------------------------------------------ *)
\* the step of _handle_ai_result that grades a submitted answer
GradeStep ==
    /\ queue # <<>>
    /\ Head(queue).sig = "result_ready"
    /\ Head(queue).arg.task = "submit_answer"
    /\ AiWorkerValid
    /\ queue' = Tail(queue)

\* the answer belongs to a single skill that has progress data
SingleSkill == HasSkillData(skill_progress, current_skill_name)

\* the status the reply is classified as
Grade == FeedbackType(Head(queue).arg.text)

Before == skill_progress[current_skill_name]

After == skill_progress'[current_skill_name]

\* C1: a Correct single-skill answer earns POINTS_CORRECT plus a bonus of
\* STREAK_BONUS_MULTIPLIER times the streak as it was before this answer, so
\* the first Correct answer of a fresh skill brings the score from 0 to 10.
C1_BonusFromStreakBefore ==
    [][GradeStep /\ SingleSkill /\ Grade = "correct"
       => After.score - Before.score
            = POINTS_CORRECT + STREAK_BONUS_MULTIPLIER * Before.streak]_vars

\* C3: for a skill graded from zero progress, after every graded answer the
\* level equals 1 + floor(score / LEVEL_UP_THRESHOLD).
C3_LevelFromScore ==
    skill_progress["a.pdf"].level
        = 1 + (skill_progress["a.pdf"].score \div LEVEL_UP_THRESHOLD)

C3_Witness ==
    /\ queue = <<>>
    /\ skill_progress["a.pdf"].level = 3
    /\ skill_progress["a.pdf"].questions_answered >= 5

\* C4: the difficulty index of a skill never decreases, grows by at most one
\* per graded answer and never exceeds the last index of DIFFICULTY_LEVELS.
C4_DifficultyMonotoneCapped ==
    [][\A n \in DOMAIN skill_progress \cap DOMAIN skill_progress' :
          /\ skill_progress'[n].current_difficulty_index
                >= skill_progress[n].current_difficulty_index
          /\ skill_progress'[n].current_difficulty_index
                <= skill_progress[n].current_difficulty_index + 1
          /\ skill_progress'[n].current_difficulty_index
                <= Len(DIFFICULTY_LEVELS) - 1]_vars

\* the 15th answer earned points at the last difficulty level
C4_Witness ==
    /\ queue = <<>>
    /\ skill_progress["a.pdf"].questions_answered = 3 * QUESTIONS_PER_LEVEL_UP
    /\ skill_progress["a.pdf"].streak >= 1
    /\ skill_progress["a.pdf"].current_difficulty_index = Len(DIFFICULTY_LEVELS) - 1

\* C5: a graded single-skill answer raises the difficulty index by one exactly
\* when the count of answered questions after it is a multiple of
\* QUESTIONS_PER_LEVEL_UP, the answer earned points and the index was below
\* the last one; otherwise the index is unchanged.
C5_DifficultyStepExactly ==
    [][GradeStep /\ SingleSkill
       => LET steps == /\ After.questions_answered % QUESTIONS_PER_LEVEL_UP = 0
                       /\ Grade \in {"correct", "partial"}
                       /\ Before.current_difficulty_index < Len(DIFFICULTY_LEVELS) - 1
          IN After.current_difficulty_index
                = Before.current_difficulty_index + (IF steps THEN 1 ELSE 0)]_vars

\* the 5th answer earned nothing and the 6th was correct: no step was made up
C5_Witness ==
    /\ queue = <<>>
    /\ skill_progress["a.pdf"].questions_answered = QUESTIONS_PER_LEVEL_UP + 1
    /\ skill_progress["a.pdf"].streak = 1
    /\ skill_progress["a.pdf"].current_difficulty_index = 0

\* C6: a graded single-skill answer that is not Correct resets the streak to
\* 0, a Correct one adds one to it, so that N consecutive Correct answers from
\* a streak of 0 leave a streak of N.
C6_StreakCountsCorrect ==
    [][GradeStep /\ SingleSkill
       => After.streak = (IF Grade = "correct" THEN Before.streak + 1 ELSE 0)]_vars

\* three Correct answers in a row, then the streak is lost
C6_Witness ==
    /\ queue = <<>>
    /\ skill_progress["a.pdf"].questions_answered = 4
    /\ skill_progress["a.pdf"].score >= 3 * POINTS_CORRECT + 12
    /\ skill_progress["a.pdf"].streak = 0

\* C7: a Partially Correct single-skill answer earns POINTS_PARTIAL, an
\* Incorrect or unclear one earns 0; the score grows by exactly the points
\* earned and the count of answered questions by one, whatever the outcome.
C7_PointsAndCount ==
    [][GradeStep /\ SingleSkill
       => /\ After.questions_answered = Before.questions_answered + 1
          /\ Grade = "partial" => After.score = Before.score + POINTS_PARTIAL
          /\ Grade \in {"incorrect", "default"} => After.score = Before.score
          /\ Grade = "correct"
                => After.score
                     = Before.score + POINTS_CORRECT
                         + STREAK_BONUS_MULTIPLIER * After.streak]_vars

\* an unclear reply was counted without points, then a partial one earned 5
C7_Witness ==
    /\ queue = <<>>
    /\ skill_progress["a.pdf"].questions_answered = 2
    /\ skill_progress["a.pdf"].score = POINTS_PARTIAL
    /\ current_reference = Some([doc_index |-> 0, page |-> 7])


(* ------------------------------------------------------------------ *)
(* Properties of the tasks of the quiz                                 *)
(* ------------------------------------------------------------------ *)
\* the threads whose worker is inside run
InFlight == {t \in Slots : t_state[t] = "running" /\ w_pc[t] # "done"}

\* C2: at any time at most one background task is in flight; a request made
\* before the previous task has finished and been cleaned up starts no second
\* worker.
C2_OneTaskInFlight == Cardinality(InFlight) <= 1

\* the step of _handle_ai_error for a failed submit_answer call
SubmitErrorStep ==
    /\ queue # <<>>
    /\ Head(queue).sig = "error_occurred"
    /\ Head(queue).arg.task = "submit_answer"
    /\ queue' = Tail(queue)

\* C8: when the AI call of submit_answer fails, no skill's progress changes,
\* total_score does not change, nothing is written to the stored progress and
\* the current question stays as it is, so the answer can be submitted again.
C8_FailedGradeKeepsState ==
    [][SubmitErrorStep
       => UNCHANGED <<skill_progress, total_score, saved_progress,
                      current_question>>]_vars

\* the error of the current submit_answer task was shown, the question is kept
C8_Witness ==
    /\ dialog = "AI Error"
    /\ worker # Absent
    /\ w_task[worker[1]] = "submit_answer"
    /\ t_quit[worker[1]]
    /\ Truthy(current_question)
    /\ buttons = "question"

\* the signals that report a success
SuccessSignals == {"result_ready", "finished", "file_processed"}

\* a worker appends a success signal to the queue of the main thread
EmitsSuccess(t) ==
    /\ Len(queue') = Len(queue) + 1
    /\ queue'[Len(queue')].src = t
    /\ queue'[Len(queue')].sig \in SuccessSignals

C10_ReviewKeepsProgress ==
    [][/\ GradeStep /\ IsAllMaterialsMode
          => UNCHANGED <<skill_progress, saved_progress>>
       /\ ALL_MATERIALS_SKILL_NAME \notin DOMAIN skill_progress'
       /\ Optionxform(ALL_MATERIALS_SKILL_NAME) \notin DOMAIN saved_progress']_vars

\* an answer of the combined review was graded partially correct
C10_Witness ==
    /\ IsAllMaterialsMode
    /\ current_question = Absent
    /\ buttons = "feedback"
    /\ current_reference = Some([doc_index |-> 0, page |-> 7])
    /\ worker # Absent
    /\ w_task[worker[1]] = "submit_answer"
    /\ t_quit[worker[1]]


(* ------------------------------------------------------------------ *)
(* The materials and their progress: the application from its          *)
(* construction as long as the window stays open                       *)
(* ------------------------------------------------------------------ *)
RunStep ==
    \E t \in Slots :
        \/ ErrorCheck(t)
        \/ EmitError(t)
        \/ ThreadFinished(t)

NextMaterials ==
    \/ SettingsStep({"key"}, {DEFAULT_MODEL}, {TRUE}, BOOLEAN, {<<PathA>>}, {{"a.pdf"}})
    \/ QuizStep({"a.pdf"})
    \/ AiWorkerStep
    \/ UploadWorkerStep
    \/ RunStep
    \/ AiQueueStep({TRUE})
    \/ UploadQueueStep
    \/ OnThreadFinished

SpecMaterials == Init /\ [][NextMaterials]_vars

\* the score of a document, 0 when it has no progress entry
ScoreOf(n) == IF n \in DOMAIN skill_progress THEN skill_progress[n].score ELSE 0

\* C11: after every completed operation (load of the configuration, add,
\* remove or clear of documents, a graded answer) total_score is the sum of
\* the scores of all per-document entries of skill_progress.
C11_TotalIsSumOfScores ==
    /\ DOMAIN skill_progress \subseteq {"a.pdf", "b.pdf"}
    /\ total_score = ScoreOf("a.pdf") + ScoreOf("b.pdf")

\* a.pdf was graded with points and saved, then removed: the total is back at
\* the score of the remaining entry
C11_Witness ==
    /\ "a.pdf" \in DOMAIN saved_progress
    /\ saved_progress["a.pdf"].score > 0
    /\ "a.pdf" \notin DOMAIN skill_progress
    /\ "b.pdf" \in DOMAIN skill_progress
    /\ total_score = skill_progress["b.pdf"].score


\* the zero-valued progress of a new document
ZeroProgress ==
    [score |-> 0, streak |-> 0, level |-> 1, questions_answered |-> 0,
     current_difficulty_index |-> 0]

\* C12: adding a document that has no progress entry creates one with score 0,
\* streak 0, level 1, no answered question and difficulty index 0; removing a
\* document, or clearing all, deletes its entry, so that a document removed
\* and added again starts from the zero-valued progress.
C12_ProgressFollowsDocuments ==
    [][\A n \in Basenames \cup DOMAIN skill_progress :
          /\ (~ InSeq(pdf_file_basenames, n) /\ InSeq(pdf_file_basenames', n))
                => /\ n \in DOMAIN skill_progress'
                   /\ n \notin DOMAIN skill_progress => skill_progress'[n] = ZeroProgress
          /\ (InSeq(pdf_file_basenames, n) /\ ~ InSeq(pdf_file_basenames', n))
                => n \notin DOMAIN skill_progress']_vars

\* a.pdf was graded with points and saved, removed and added again
C12_Witness ==
    /\ InSeq(pdf_file_basenames, "a.pdf")
    /\ "a.pdf" \in DOMAIN saved_progress
    /\ saved_progress["a.pdf"].score > 0
    /\ "a.pdf" \in DOMAIN skill_progress
    /\ skill_progress["a.pdf"] = ZeroProgress


\* C13: each submitted answer graded in single-skill mode updates the progress
\* of the current skill exactly once, its count of answered questions growing
\* by exactly 1, and leaves the entries of all other skills unchanged; no
\* other step of the quiz changes any progress.
C13_OneUpdatePerGradedAnswer ==
    [][/\ GradeStep /\ SingleSkill
          => /\ DOMAIN skill_progress' = DOMAIN skill_progress
             /\ After.questions_answered = Before.questions_answered + 1
             /\ \A n \in DOMAIN skill_progress \ {current_skill_name} :
                   skill_progress'[n] = skill_progress[n]
       /\ ~ GradeStep => skill_progress' = skill_progress]_vars

\* the first answer of a.pdf is graded, the stored skill is as it was loaded
C13_Witness ==
    /\ current_skill_name = "a.pdf"
    /\ skill_progress["a.pdf"].questions_answered = 1
    /\ skill_progress["b.pdf"] = StoredConfigFile.progress["b.pdf"]
    /\ buttons = "feedback"
    /\ worker # Absent
    /\ w_task[worker[1]] = "submit_answer"
    /\ t_quit[worker[1]]


\* the AI is not configured
NotConfigured == ~ gemini_configured \/ model = None

\* C14: while the AI is not configured (gemini_configured is false or model is
\* None) no step starts a worker thread: process_pdfs, next_question,
\* get_guidance and submit_answer start none and nothing is retried later.
C14_UnconfiguredStartsNothing ==
    [][NotConfigured
       => \A t \in Slots : t_state[t] = "none" => t_state'[t] = "none"]_vars

\* the materials are uploaded, the configuration was lost afterwards and the
\* Next Question button of the quiz was refused by _start_ai_task
C14_Witness ==
    /\ NotConfigured
    /\ view = 1
    /\ current_skill_name = "a.pdf"
    /\ quiz_active
    /\ "a.pdf" \in uploaded_file_references
    /\ thread = Absent
    /\ dialog = "Error"


\* the text begins with the phrase, letters compared without their case
Leads(text, phrase) ==
    /\ Len(text) >= Len(phrase)
    /\ \A i \in 1..Len(phrase) : LowerChar(text[i]) = phrase[i]

\* C15: the status of a grading reply is decided by its leading text, compared
\* case-insensitively: "status: correct" is graded as Correct, "status:
\* partially correct" as Partially Correct, "status: incorrect" and every other
\* reply earn nothing and break the streak; a reply that begins with "status:
\* partially correct" or "status: incorrect" is never graded as Correct.
C15_StatusFromLeadingText ==
    [][GradeStep /\ SingleSkill
       => LET text == Head(queue).arg.text
              correct == After.streak = Before.streak + 1
              partial == /\ After.score = Before.score + POINTS_PARTIAL
                         /\ After.streak = 0
              nothing == /\ After.score = Before.score
                         /\ After.streak = 0
          IN /\ Leads(text, PrefixCorrect) <=> correct
             /\ Leads(text, PrefixPartial) <=> partial
             /\ Leads(text, PrefixIncorrect) => nothing
             /\ (Leads(text, PrefixPartial) \/ Leads(text, PrefixIncorrect)) => ~ correct
             /\ ~ (Leads(text, PrefixCorrect) \/ Leads(text, PrefixPartial)) => nothing]_vars

\* the reply "status: partially correct Reference: 0:7" was graded as the
\* first answer: partial points, and its reference was kept
C15_Witness ==
    /\ queue = <<>>
    /\ skill_progress["a.pdf"].questions_answered = 1
    /\ skill_progress["a.pdf"].score = POINTS_PARTIAL
    /\ skill_progress["a.pdf"].streak = 0
    /\ current_reference = Some([doc_index |-> 0, page |-> 7])


(* ------------------------------------------------------------------ *)
(* The reference tags of the feedback                                  *)
(* ------------------------------------------------------------------ *)
PathB == [dir |-> "d1", base |-> "B.pdf"]
PathC == [dir |-> "d2", base |-> "c.pdf"]

\* the lists of uploaded documents
DocumentLists == {<<PathA>>, <<PathA, PathB>>, <<PathA, PathB, PathC>>}

\* replies with reference tags: without and with brackets, out of range for
\* every list, two tags, a tag without numbers
ReplyPlainTag == <<"R", "e", "f", "e", "r", "e", "n", "c", "e", ":", " ", "2", ":", "5">>
ReplyBracketTag == <<"R", "e", "f", "e", "r", "e", "n", "c", "e", ":", " ", "[", "2", "]",
                     ":", "[", "5", "]">>
ReplyTwoTags == <<"R", "e", "f", "e", "r", "e", "n", "c", "e", ":", "0", ":", "7", " ",
                  "R", "e", "f", "e", "r", "e", "n", "c", "e", ":", " ", "1", ":", "3">>
ReplyNoNumbers == <<"R", "e", "f", "e", "r", "e", "n", "c", "e", ":", " ", "x", ":", "1">>
TagReplies == {ReplyPlainTag, ReplyBracketTag, ReplyHint, ReplyTwoTags, ReplyNoNumbers}

\* The quiz of one of the uploaded documents, or the combined review, with a
\* question asked by the first thread (now deleted) and the reply to a request
\* for guidance emitted by the worker of the second.
InitReference ==
    /\ api_key = StoredConfigFile.api_key
    /\ selected_model_name = StoredConfigFile.model
    /\ gemini_configured = TRUE
    /\ model = "model"
    /\ pdf_file_paths \in DocumentLists
    /\ pdf_file_basenames = [i \in 1..Len(pdf_file_paths) |-> Basename(pdf_file_paths[i])]
    /\ uploaded_file_references = {Basename(pdf_file_paths[i]) : i \in 1..Len(pdf_file_paths)}
    /\ skill_progress = [n \in uploaded_file_references \cup DOMAIN StoredConfigFile.progress |->
                           IF n \in DOMAIN StoredConfigFile.progress
                           THEN StoredConfigFile.progress[n] ELSE DefaultSkillData]
    /\ total_score = RecalculatedTotal(StoredConfigFile.progress)
    /\ saved_progress = StoredConfigFile.progress
    /\ current_skill_name \in uploaded_file_references \cup {ALL_MATERIALS_SKILL_NAME}
    /\ current_question = Some(Strip(ReplyHint))
    /\ quiz_active = TRUE
    /\ current_reference = Absent
    /\ level_up_occurred = FALSE
    /\ view = 1
    /\ buttons = "processing"
    /\ back_enabled = FALSE
    /\ controls_enabled = FALSE
    /\ process_enabled = FALSE
    /\ ref_enabled = FALSE
    /\ feedback_shown = TRUE
    /\ dialog = "none"
    /\ closed = FALSE
    /\ thread = Some(2)
    /\ worker = Some(2)
    /\ t_state = [t \in Slots |-> IF t = 1 THEN "deleted"
                                  ELSE IF t = 2 THEN "running" ELSE "none"]
    /\ t_quit = [t \in Slots |-> FALSE]
    /\ w_kind = [t \in Slots |-> IF t = 2 THEN "ai" ELSE "none"]
    /\ w_pc = [t \in Slots |-> IF t = 2 THEN "done" ELSE "none"]
    /\ w_is_running = [t \in Slots |-> t = 2]
    /\ w_task = [t \in Slots |-> IF t = 2 THEN "get_guidance" ELSE "none"]
    /\ w_resp = [t \in Slots |-> Absent]
    /\ u_files = [t \in Slots |-> <<>>]
    /\ u_i = [t \in Slots |-> IF t = 2 THEN 1 ELSE 0]
    /\ u_attempts = [t \in Slots |-> 0]
    /\ u_fstate = [t \in Slots |-> "none"]
    /\ u_temp = [t \in Slots |-> <<>>]
    /\ u_remote = [t \in Slots |-> "none"]
    /\ \E reply \in TagReplies :
          queue = <<Signal("result_ready", 2,
                           [task |-> "get_guidance", text |-> Strip(reply)])>>

\* The round up to the next hint, seen from the main thread's queue: guidance
\* is requested again and the worker of the get_guidance task emits
\* result_ready with the reply. The threads of the round are not counted.
NextHint(reply) ==
    /\ queue = <<>>
    /\ buttons' = "processing"
    /\ back_enabled' = FALSE
    /\ feedback_shown' = TRUE
    /\ dialog' = "none"
    /\ t_quit' = [t_quit EXCEPT ![worker[1]] = FALSE]
    /\ queue' = <<Signal("result_ready", worker[1],
                         [task |-> "get_guidance", text |-> Strip(reply)])>>
    /\ UNCHANGED <<pdf_file_paths, pdf_file_basenames, uploaded_file_references,
                   current_skill_name, current_question, quiz_active, gemini_configured,
                   model, api_key, selected_model_name, current_reference,
                   skill_progress, total_score, level_up_occurred, thread, worker, view,
                   controls_enabled, process_enabled, ref_enabled, saved_progress,
                   t_state, workerVars, uploadVars, closed>>

NextReference ==
    \/ \E reply \in TagReplies : NextHint(reply)
    \/ HandleAiResult(TRUE)

SpecReference == InitReference /\ [][NextReference]_vars


\* the step of _handle_ai_result that shows a hint
HintStep ==
    /\ queue # <<>>
    /\ Head(queue).sig = "result_ready"
    /\ Head(queue).arg.task = "get_guidance"
    /\ AiWorkerValid
    /\ queue' = Tail(queue)

\* the hint is the stripped text of the reply
HintIs(reply) == Head(queue).arg.text = Strip(reply)

\* the replies that carry a tag, and the document index and the page their
\* first tag names
TaggedReplies == {ReplyPlainTag, ReplyBracketTag, ReplyHint, ReplyTwoTags}

TagIndex(reply) ==
    IF reply = ReplyHint THEN 5 ELSE IF reply = ReplyTwoTags THEN 0 ELSE 2

TagPage(reply) ==
    IF reply = ReplyHint THEN 1 ELSE IF reply = ReplyTwoTags THEN 7 ELSE 5

\* the position of a document in the list, counted from 0
PositionOf(name) ==
    (CHOOSE i \in 1..Len(pdf_file_basenames) : pdf_file_basenames[i] = name) - 1

\* C16: in single-skill mode, whatever document index the tag of the reply
\* carries, the stored reference has the position of the current skill in the
\* document list as its doc_index and the page of the tag as its page.
C16_SingleSkillRemap ==
    [][HintStep /\ ~ IsAllMaterialsMode
       => \A reply \in TaggedReplies :
             HintIs(reply)
                => current_reference'
                     = Some([doc_index |-> PositionOf(current_skill_name),
                             page |-> TagPage(reply)])]_vars

\* the tag [5]:[1] in the quiz of the second document B.pdf
C16_Witness ==
    /\ queue = <<>>
    /\ current_skill_name = "B.pdf"
    /\ current_reference = Some([doc_index |-> 1, page |-> 1])
    /\ ref_enabled

\* C17: in combined-review mode a tag whose document index i satisfies
\* 0 <= i < number of documents is stored unchanged with its page; a tag whose
\* index is outside that range is discarded: no reference is stored, the
\* reference button is disabled and no error is shown.
C17_CombinedRange ==
    [][HintStep /\ IsAllMaterialsMode
       => \A reply \in TaggedReplies :
             HintIs(reply)
                => IF 0 <= TagIndex(reply) /\ TagIndex(reply) < Len(pdf_file_paths)
                   THEN /\ current_reference'
                             = Some([doc_index |-> TagIndex(reply),
                                     page |-> TagPage(reply)])
                        /\ ref_enabled'
                   ELSE /\ current_reference' = Absent
                        /\ ~ ref_enabled'
                        /\ dialog' = "none"]_vars

\* the tag 2:5 in the combined review of three documents
C17_Witness ==
    /\ queue = <<>>
    /\ IsAllMaterialsMode
    /\ Len(pdf_file_paths) = 3
    /\ current_reference = Some([doc_index |-> 2, page |-> 5])
    /\ ref_enabled

\* the reference a tag gives in the current mode
ReferenceFor(index, page) ==
    IF ~ IsAllMaterialsMode
    THEN Some([doc_index |-> PositionOf(current_skill_name), page |-> page])
    ELSE IF 0 <= index /\ index < Len(pdf_file_paths)
    THEN Some([doc_index |-> index, page |-> page])
    ELSE Absent

\* C18: the reference is taken from the first "Reference:" tag of the reply
\* only, with or without square brackets around index and page; a reply
\* without such a tag gives no reference and no error; every new feedback
\* text replaces or clears the reference stored before.
C18_FirstTagReplacesReference ==
    [][HintStep
       => /\ HintIs(ReplyTwoTags) => current_reference' = ReferenceFor(0, 7)
          /\ HintIs(ReplyPlainTag) => current_reference' = ReferenceFor(2, 5)
          /\ HintIs(ReplyBracketTag) => current_reference' = ReferenceFor(2, 5)
          /\ HintIs(ReplyNoNumbers)
                => current_reference' = Absent /\ dialog' = "none"
          /\ ref_enabled' = (current_reference' # Absent)]_vars

\* the first of the two tags 0:7 and 1:3, both in range, was stored
C18_Witness ==
    /\ queue = <<>>
    /\ IsAllMaterialsMode
    /\ Len(pdf_file_paths) >= 2
    /\ current_reference = Some([doc_index |-> 0, page |-> 7])


(* ------------------------------------------------------------------ *)
(* The upload: the stored configuration was loaded, the settings view  *)
(* is shown and the two documents a.pdf and B.pdf were added. The      *)
(* documents are processed, and the window may be closed at any time.  *)
(* ------------------------------------------------------------------ *)
InitUpload ==
    /\ api_key = StoredConfigFile.api_key
    /\ selected_model_name = StoredConfigFile.model
    /\ gemini_configured = TRUE
    /\ model = "model"
    /\ NoThreads
    /\ pdf_file_paths = <<PathA, PathB>>
    /\ pdf_file_basenames = <<"a.pdf", "B.pdf">>
    /\ uploaded_file_references = {}
    /\ skill_progress = [n \in {"a.pdf", "B.pdf"} \cup DOMAIN StoredConfigFile.progress |->
                           IF n \in DOMAIN StoredConfigFile.progress
                           THEN StoredConfigFile.progress[n] ELSE DefaultSkillData]
    /\ total_score = RecalculatedTotal(StoredConfigFile.progress)
    /\ saved_progress = StoredConfigFile.progress
    /\ current_skill_name = None
    /\ current_question = Absent
    /\ quiz_active = FALSE
    /\ current_reference = Absent
    /\ level_up_occurred = FALSE
    /\ view = 2
    /\ buttons = "unset"
    /\ back_enabled = TRUE
    /\ controls_enabled = TRUE
    /\ process_enabled = TRUE
    /\ ref_enabled = FALSE
    /\ feedback_shown = FALSE
    /\ dialog = "none"
    /\ closed = FALSE

\* the steps of one PDFUploadWorker.run, its except clauses included
UploadRun(t) ==
    \/ UploadRunStart(t)
    \/ UploadLoop(t)
    \/ \E outcome \in FileApiOutcomes : UploadFile(t, outcome)
    \/ UploadAfterUpload(t)
    \/ UploadPoll(t)
    \/ \E outcome \in FileApiOutcomes : UploadGetFile(t, outcome)
    \/ UploadStopCheck(t)
    \/ UploadActiveCheck(t)
    \/ UploadAfterLoop(t)
    \/ UploadEmitFinished(t)
    \/ ErrorCheck(t)
    \/ EmitError(t)

NextUpload ==
    \/ ProcessPdfs
    \/ CloseStep({TRUE})
    \/ \E t \in Slots : UploadRun(t)
    \/ \E t \in Slots : ThreadFinished(t) \/ Terminate(t)
    \/ UploadQueueStep
    \/ OnThreadFinished

SpecUpload == InitUpload /\ [][NextUpload]_vars

\* the worker thread runs: every step of run that can be taken is taken, and
\* every call of the File API returns or raises
SpecUploadFair == SpecUpload /\ \A t \in Slots : WF_vars(UploadRun(t))


\* the worker breaks out of the for loop, between the return of upload_file
\* and the append of the file to temp_uploaded_references
StopsBeforeAccepted(t) ==
    /\ w_kind[t] = "upload"
    /\ w_pc[t] \in {"uploaded", "poll", "poll_wake", "stop_check"}
    /\ w_pc'[t] = "after_loop"

\* C19: whenever the upload worker sees the stop flag after upload_file has
\* returned and before the file is appended to the processed files, at any
\* test of the flag, the one right after upload_file included, it calls
\* delete_file for the remote file, unless the state of the file is FAILED,
\* before it leaves the loop.
C19_CancelledUploadDeleted ==
    [][\A t \in Slots :
          StopsBeforeAccepted(t)
             => u_fstate[t] = "FAILED" \/ u_remote'[t] = "deleted"]_vars


\* C20: for each file the worker asks for the status at most max_attempts
\* times, a request that raised counted; a file that is not ACTIVE after the
\* polls is not accepted and the upload raises its error; and, every call of
\* the File API returning, every run of the worker comes to its end.
C20_BoundedPollsTerminate ==
    /\ [](\A t \in Slots : u_attempts[t] <= max_attempts)
    /\ [][\A t \in Slots :
             (AtPc(t, "upload", "active_check") /\ u_fstate[t] # "ACTIVE"
                 /\ w_pc'[t] # w_pc[t])
                => /\ u_temp'[t] = u_temp[t]
                   /\ \/ w_pc'[t] = "raised"
                      \/ w_pc'[t] = "done" /\ ~ w_is_running[t]]_vars
    /\ \A t \in Slots :
          (w_kind[t] = "upload" /\ w_pc[t] # "done") ~> (w_pc[t] = "done")

\* the file was still PROCESSING after max_attempts polls: it was deleted and
\* the run ended with error_occurred
C20_Witness ==
    \E t \in Slots :
       /\ u_attempts[t] = max_attempts
       /\ u_fstate[t] = "PROCESSING"
       /\ u_remote[t] = "deleted"
       /\ w_is_running[t]
       /\ w_pc[t] = "done"
       /\ \E k \in 1..Len(queue) :
             queue[k].sig = "error_occurred" /\ queue[k].src = t


\* the run of the worker is past its call of generate_content
PastCall(t) == w_pc[t] \notin {"none", "start", "before_call", "call"}

\* the error_occurred signals of worker t that wait in the queue
QueuedErrors(q, t) ==
    {k \in 1..Len(q) : q[k].sig = "error_occurred" /\ q[k].src = t}

\* a slot of the main thread handles the error_occurred signal of a worker
\* that was not stopped
ErrorHandled ==
    /\ queue # <<>>
    /\ Head(queue).sig = "error_occurred"
    /\ w_is_running[Head(queue).src]
    /\ queue' = Tail(queue)

\* a new worker thread is started
WorkerStarted == \E t \in Slots : t_state[t] = "none" /\ t_state'[t] = "running"

\* C21: nothing is retried after an error. The run of an AI worker never
\* comes back to generate_content once it has called it; a worker emits
\* error_occurred at most once and the slot that handles it shows the error
\* dialog once; and a worker thread is started only by a step of the user
\* (Next Question, Guidance, Submit, Process PDFs), never by a slot that
\* handles a signal or by a step of a worker.
C21_NoAutomaticRetry ==
    [][/\ \A t \in Slots :
             /\ (w_kind[t] = "ai" /\ PastCall(t))
                   => w_pc'[t] \notin {"start", "before_call", "call"}
             /\ Cardinality(QueuedErrors(queue', t)) <= 1
             /\ w_pc[t] = "done"
                   => Cardinality(QueuedErrors(queue', t))
                         <= Cardinality(QueuedErrors(queue, t))
       /\ ErrorHandled
             => dialog' = (IF w_kind[Head(queue).src] = "ai" THEN "AI Error"
                           ELSE "Upload Error")
       /\ WorkerStarted
             => /\ queue' = queue
                /\ \A u \in Slots : w_pc[u] # "none" => w_pc'[u] = w_pc[u]]_vars


(* ------------------------------------------------------------------ *)
(* The prompts: what the text part of prompt_parts states. The target  *)
(* language is self.selected_language, written into every prompt; the  *)
(* field language tells whether the text names it.                     *)
(* ------------------------------------------------------------------ *)
\* difficulty of next_question
PromptDifficulty ==
    IF IsAllMaterialsMode THEN "Standard"
    ELSE DIFFICULTY_LEVELS[GetCurrentSkillData(skill_progress, current_skill_name).current_difficulty_index + 1]

\* _build_document_list_for_prompt: entry i is the name listed as [i - 1]
BuildDocumentListForPrompt == pdf_file_basenames

\* the text of prompt_parts[0] and the files that follow it
PromptParts(task_identifier) ==
    [language |-> TRUE,
     difficulty |-> IF task_identifier = "next_question"
                    THEN Some(PromptDifficulty) ELSE Absent,
     documents |-> IF IsAllMaterialsMode THEN uploaded_file_references
                   ELSE {current_skill_name},
     doc_list |-> IF IsAllMaterialsMode THEN BuildDocumentListForPrompt
                  ELSE <<current_skill_name>>]

\* an AI worker is started for the task
AiTaskStarted(t) ==
    t_state[t] = "none" /\ t_state'[t] = "running" /\ w_kind'[t] = "ai"

\* C22: every prompt given to an AI worker, for question generation, guidance
\* and answer evaluation, in both modes, states the target language, the
\* difficulty label and the authoritative documents, and a combined-review
\* prompt holds the list of all documents with their indices.
C22_PromptContract ==
    [][\A t \in Slots :
          AiTaskStarted(t)
             => LET prompt == PromptParts(w_task'[t])
                IN /\ prompt.language
                   /\ prompt.difficulty # Absent
                   /\ prompt.documents # {}
                   /\ IsAllMaterialsMode => prompt.doc_list = pdf_file_basenames]_vars


\* a slot handles the signal sig at the head of the queue
Handles(sig) ==
    queue # <<>> /\ Head(queue).sig = sig /\ queue' = Tail(queue)

\* C23: the thread and worker handles of the application refer to the task
\* in flight: a worker that runs is the one the handles name, the cleanup of
\* a finished thread leaves the handles of another task alone, and the
\* result or error of a worker that was not stopped is handled with the
\* handles naming that worker, so it is never dropped as invalid.
C23_HandlesFollowTask ==
    [][/\ \A t \in InFlight : thread = Some(t) /\ worker = Some(t)
       /\ (Handles("thread_finished") /\ thread # Some(Head(queue).src))
             => thread' = thread /\ worker' = worker
       /\ \A sig \in {"result_ready", "error_occurred", "finished"} :
             (Handles(sig) /\ w_is_running[Head(queue).src])
                => worker = Some(Head(queue).src)]_vars


(* ------------------------------------------------------------------ *)
(* Runs that are never cancelled: the window stays open. The two       *)
(* documents are uploaded, a.pdf is quizzed.                           *)
(* ------------------------------------------------------------------ *)
\* what generate_content does in these runs: the text of a reply plays no
\* part, it is a short one
RunOutcomes ==
    {[kind |-> "raises", text |-> <<>>], [kind |-> "rejected", text |-> <<>>],
     [kind |-> "text", text |-> <<"Q">>]}

\* the steps of one AIWorker.run
AiRun(t) ==
    \/ AiRunStart(t)
    \/ AiBeforeCall(t)
    \/ \E outcome \in RunOutcomes : AiGenerateContent(t, outcome)
    \/ AiAfterCall(t)
    \/ AiResultCheck(t)
    \/ AiEmitResult(t)

\* the slots of the main thread
MainLoop == AiQueueStep({TRUE}) \/ UploadQueueStep \/ OnThreadFinished

NextRuns ==
    \/ ProcessPdfs
    \/ ShowSkillPathView
    \/ StartQuizForSkill("a.pdf")
    \/ NextQuestion
    \/ GetGuidance
    \/ SubmitAnswer("answer")
    \/ \E t \in Slots : AiRun(t)
    \/ \E t \in Slots : UploadRun(t)
    \/ \E t \in Slots : ThreadFinished(t)
    \/ MainLoop

SpecRuns == InitUpload /\ [][NextRuns]_vars

\* some worker thread that can take a step takes one, a thread told to quit
\* ends, and the event loop of the main thread delivers the queued signals
SpecRunsFair ==
    /\ SpecRuns
    /\ WF_vars(\E t \in Slots : AiRun(t) \/ UploadRun(t) \/ ThreadFinished(t))
    /\ WF_vars(MainLoop)


\* the terminal notifications of a worker
TerminalSignals(kind) ==
    IF kind = "ai" THEN {"result_ready", "error_occurred"}
    ELSE {"finished", "error_occurred"}

\* the step appends a terminal notification of worker t to the queue
EmitsTerminal(t) ==
    /\ Len(queue') = Len(queue) + 1
    /\ queue'[Len(queue')].src = t
    /\ queue'[Len(queue')].sig \in TerminalSignals(w_kind[t])

\* C24: a worker that is not cancelled emits exactly one terminal
\* notification per run: the step that ends its run emits one, and no other
\* step of the worker emits any. After it the application eventually cleans
\* the thread up, holds no thread and no worker, and has its controls
\* enabled for new requests.
C24_OneTerminalThenCleanup ==
    /\ [][\A t \in Slots :
             (w_kind[t] # "none" /\ w_is_running[t])
                => /\ (w_pc[t] # "done" /\ w_pc'[t] = "done") => EmitsTerminal(t)
                   /\ EmitsTerminal(t) => w_pc[t] # "done" /\ w_pc'[t] = "done"]_vars
    /\ \A t \in Slots :
          (t_state[t] = "running" /\ w_pc[t] = "done")
             ~> (t_state[t] = "deleted" /\ thread = Absent /\ worker = Absent
                   /\ controls_enabled)

\* an upload and a question: both runs ended with their notification, both
\* threads were cleaned up
C24_Witness ==
    /\ \E t, u \in Slots : t # u /\ t_state[t] = "deleted" /\ t_state[u] = "deleted"
    /\ thread = Absent
    /\ worker = Absent
    /\ controls_enabled
    /\ uploaded_file_references = {"a.pdf", "B.pdf"}
    /\ current_question # Absent
    /\ queue = <<>>


\* C25: a question is graded at most once. A grading task is started only
\* while a question is set; the slot that applies a grade finds the question
\* set and clears it; and a question is set only by the result of
\* next_question, so a next_question result lies between two grades.
C25_QuestionGradedOnce ==
    [][/\ \A t \in Slots :
             (AiTaskStarted(t) /\ w_task'[t] = "submit_answer")
                => Truthy(current_question)
       /\ GradeStep => Truthy(current_question) /\ current_question' = Absent
       /\ (~ Truthy(current_question) /\ Truthy(current_question'))
             => Handles("result_ready") /\ Head(queue).arg.task = "next_question"]_vars


(* ------------------------------------------------------------------ *)
(* One question: the quiz of a.pdf when the result of next_question    *)
(* has just been handled and its thread was told to quit. The user     *)
(* answers and submits, and never asks for another question.           *)
(* ------------------------------------------------------------------ *)
InitAsked ==
    /\ UploadedConfig
    /\ pdf_file_paths = <<PathA>>
    /\ pdf_file_basenames = <<"a.pdf">>
    /\ uploaded_file_references = {"a.pdf"}
    /\ current_skill_name = "a.pdf"
    /\ current_question = Some(Strip(ReplyHint))
    /\ quiz_active = TRUE
    /\ current_reference = Absent
    /\ level_up_occurred = FALSE
    /\ view = 1
    /\ buttons = "question"
    /\ back_enabled = TRUE
    /\ controls_enabled = FALSE
    /\ process_enabled = FALSE
    /\ ref_enabled = FALSE
    /\ feedback_shown = TRUE
    /\ dialog = "none"
    /\ closed = FALSE
    /\ thread = Some(1)
    /\ worker = Some(1)
    /\ t_state = [t \in Slots |-> IF t = 1 THEN "running" ELSE "none"]
    /\ t_quit = [t \in Slots |-> t = 1]
    /\ w_kind = [t \in Slots |-> IF t = 1 THEN "ai" ELSE "none"]
    /\ w_pc = [t \in Slots |-> IF t = 1 THEN "done" ELSE "none"]
    /\ w_is_running = [t \in Slots |-> t = 1]
    /\ w_task = [t \in Slots |-> IF t = 1 THEN "next_question" ELSE "none"]
    /\ w_resp = [t \in Slots |-> Absent]
    /\ u_files = [t \in Slots |-> <<>>]
    /\ u_i = [t \in Slots |-> IF t = 1 THEN 1 ELSE 0]
    /\ u_attempts = [t \in Slots |-> 0]
    /\ u_fstate = [t \in Slots |-> "none"]
    /\ u_temp = [t \in Slots |-> <<>>]
    /\ u_remote = [t \in Slots |-> "none"]
    /\ queue = <<>>

NextAnswer ==
    \/ \E user_answer \in Answers : SubmitAnswer(user_answer)
    \/ AiWorkerStep
    \/ RunStep
    \/ AiQueueStep({TRUE})
    \/ OnThreadFinished

SpecAnswer == InitAsked /\ [][NextAnswer]_vars


\* C26: while a background task is in flight the document list, the uploaded
\* references, the current skill and the settings stay as they are: the list
\* a reply is remapped with is the list its prompt was built from.
C26_FrozenWhileInFlight ==
    [][InFlight # {}
          => UNCHANGED <<pdf_file_paths, pdf_file_basenames, uploaded_file_references,
                         current_skill_name, api_key, selected_model_name,
                         gemini_configured, model>>]_vars


(* ------------------------------------------------------------------ *)
(* The document list: files of two directories, two of them with one   *)
(* basename, are added, removed, cleared and uploaded in any order.    *)
(* ------------------------------------------------------------------ *)
NextDocuments ==
    \/ SettingsStep({"key"}, {DEFAULT_MODEL}, {TRUE}, {TRUE}, FileSelections,
                    SUBSET Basenames)
    \/ ShowSkillPathView
    \/ UploadWorkerStep
    \/ RunStep
    \/ UploadQueueStep
    \/ OnThreadFinished

SpecDocuments == Init /\ [][NextDocuments]_vars

\* C27: the two document lists have one length, entry i of pdf_file_paths is
\* the file named by entry i of pdf_file_basenames, no basename is listed
\* twice, and every listed basename has an entry in skill_progress.
C27_DocumentListsAgree ==
    /\ Len(pdf_file_paths) = Len(pdf_file_basenames)
    /\ \A i \in 1..Len(pdf_file_paths) :
          /\ Basename(pdf_file_paths[i]) = pdf_file_basenames[i]
          /\ pdf_file_basenames[i] \in DOMAIN skill_progress
    /\ \A i, j \in 1..Len(pdf_file_basenames) :
          pdf_file_basenames[i] = pdf_file_basenames[j] => i = j

\* B.pdf and the a.pdf of directory d2 are listed, and the a.pdf of directory
\* d1 was just skipped for its name
C27_Witness ==
    /\ pdf_file_paths = <<[dir |-> "d1", base |-> "B.pdf"], [dir |-> "d2", base |-> "a.pdf"]>>
    /\ dialog = "Duplicate Filename"
    /\ uploaded_file_references = {}


\* C28: an active quiz has uploaded references; a step of add, remove or
\* clear that changes the document list leaves no uploaded reference and an
\* inactive quiz; and the quiz becomes active only when the slot of an
\* upload's finished signal stores references.
C28_QuizNeedsUpload ==
    [][/\ quiz_active => uploaded_file_references # {}
       /\ pdf_file_basenames' # pdf_file_basenames
             => uploaded_file_references' = {} /\ ~ quiz_active'
       /\ (~ quiz_active /\ quiz_active')
             => Handles("finished") /\ uploaded_file_references' # {}]_vars

\* both documents were uploaded and the quiz is active
C28_Witness ==
    /\ quiz_active
    /\ pdf_file_basenames = <<"a.pdf", "B.pdf">>
    /\ uploaded_file_references = {"a.pdf", "B.pdf"}
    /\ thread = Absent


\* the names in the document list
Listed == {pdf_file_basenames[i] : i \in 1..Len(pdf_file_basenames)}

\* C29: an upload is all or nothing. The uploaded references are those of
\* the whole document list or none, and the quiz is active exactly when they
\* are there; the slot of finished stores references only of a run in which
\* every file became ACTIVE; and the slot of an upload's error_occurred
\* leaves no reference and an inactive quiz, whatever was processed earlier
\* in the run.
C29_UploadAllOrNothing ==
    [][/\ uploaded_file_references \in {{}, Listed}
       /\ quiz_active = (uploaded_file_references # {})
       /\ (Handles("finished") /\ uploaded_file_references' # {})
             => /\ u_temp[Head(queue).src] = pdf_file_basenames
                /\ u_fstate[Head(queue).src] = "ACTIVE"
                /\ uploaded_file_references' = Listed
       /\ (Handles("error_occurred") /\ w_kind[Head(queue).src] = "upload")
             => uploaded_file_references' = {} /\ ~ quiz_active']_vars

\* a.pdf was processed, then B.pdf failed: the error was shown and nothing is
\* stored
C29_Witness ==
    /\ \E t \in Slots : u_temp[t] = <<"a.pdf">> /\ u_files[t] = <<"a.pdf", "B.pdf">>
                           /\ w_pc[t] = "done" /\ t_quit[t]
    /\ dialog = "Upload Error"
    /\ uploaded_file_references = {}
    /\ ~ quiz_active


(***************************************************************************)
(* The reference button and the document list.                             *)
(***************************************************************************)
\* current_reference is set and names an entry of the current document list
ReferenceInRange ==
    /\ current_reference # Absent
    /\ 0 <= current_reference[1].doc_index
    /\ current_reference[1].doc_index < Len(pdf_file_paths)


(* ------------------------------------------------------------------ *)
(* The views: the documents a.pdf and B.pdf are uploaded, and a quiz   *)
(* shows a question and a hint whose reference tag named the second    *)
(* document (the quiz of B.pdf) or the first (the combined review).    *)
(* The threads of the upload, the question and the hint are deleted    *)
(* and not counted. The user moves between the views, changes the      *)
(* document list, uploads again and goes on with a quiz.               *)
(* ------------------------------------------------------------------ *)
InitViews ==
    /\ api_key = StoredConfigFile.api_key
    /\ selected_model_name = StoredConfigFile.model
    /\ gemini_configured = TRUE
    /\ model = "model"
    /\ NoThreads
    /\ pdf_file_paths = <<PathA, PathB>>
    /\ pdf_file_basenames = <<"a.pdf", "B.pdf">>
    /\ uploaded_file_references = {"a.pdf", "B.pdf"}
    /\ skill_progress = [n \in {"a.pdf", "B.pdf"} \cup DOMAIN StoredConfigFile.progress |->
                           IF n \in DOMAIN StoredConfigFile.progress
                           THEN StoredConfigFile.progress[n] ELSE DefaultSkillData]
    /\ total_score = RecalculatedTotal(StoredConfigFile.progress)
    /\ saved_progress = StoredConfigFile.progress
    /\ current_skill_name \in {"B.pdf", ALL_MATERIALS_SKILL_NAME}
    /\ current_question = Some(Strip(ReplyHint))
    /\ quiz_active = TRUE
    /\ current_reference =
          Some([doc_index |-> IF current_skill_name = "B.pdf" THEN 1 ELSE 0, page |-> 7])
    /\ level_up_occurred = FALSE
    /\ view = 1
    /\ buttons = "question"
    /\ back_enabled = TRUE
    /\ controls_enabled = TRUE
    /\ process_enabled = TRUE
    /\ ref_enabled = TRUE
    /\ feedback_shown = TRUE
    /\ dialog = "none"
    /\ closed = FALSE

NextViews ==
    \/ ShowSkillPathView
    \/ ShowSettingsView
    \/ \E skill_name \in {"a.pdf", ALL_MATERIALS_SKILL_NAME} : StartQuizForSkill(skill_name)
    \/ NextQuestion
    \/ GetGuidance
    \/ ViewReference
    \/ AddPdfs(<<PathB>>)
    \/ RemovePdfsByName({"B.pdf"})
    \/ ClearPdfs
    \/ ProcessPdfs
    \/ \E t \in Slots :
          \/ AiRunStart(t)
          \/ AiBeforeCall(t)
          \/ \E outcome \in {o \in ApiOutcomes(w_task[t]) :
                                 o.kind = "raises" \/ (o.kind = "text" /\ o.text # <<>>)} :
                AiGenerateContent(t, outcome)
          \/ AiAfterCall(t)
          \/ AiResultCheck(t)
          \/ AiEmitResult(t)
    \/ \E t \in Slots :
          \/ UploadRunStart(t)
          \/ UploadLoop(t)
          \/ \E outcome \in {"PROCESSING", "raises"} : UploadFile(t, outcome)
          \/ UploadAfterUpload(t)
          \/ UploadPoll(t)
          \/ UploadGetFile(t, "ACTIVE")
          \/ UploadStopCheck(t)
          \/ UploadActiveCheck(t)
          \/ UploadAfterLoop(t)
          \/ UploadEmitFinished(t)
    \/ RunStep
    \/ AiQueueStep({TRUE})
    \/ UploadQueueStep
    \/ OnThreadFinished

SpecViews == InitViews /\ [][NextViews]_vars

\* the button's enabled flag alone, whatever view is shown
EnabledInRange == ref_enabled => ReferenceInRange

\* the button of the quiz view that is shown
ShownInRange == (view = 1 /\ ref_enabled) => ReferenceInRange

\* view_reference gets past its two checks and opens the file
OpensFile == ViewReference /\ dialog' = "none"

\* C30: whenever the view-reference button is enabled,
\* current_reference is set and its doc_index lies in
\* [0, len(pdf_file_paths) - 1] for the current document list, after any
\* sequence of feedback display, view changes and document-list changes, and
\* view_reference never opens a file for an index outside that range.
C30_EnabledReferenceInRange ==
    [][/\ EnabledInRange
       /\ EnabledInRange'
       /\ OpensFile => ReferenceInRange]_vars

\* C30, for the view that is shown: whenever the quiz view is shown and its view-reference
\* button is enabled, current_reference is set and its doc_index lies in
\* [0, len(pdf_file_paths) - 1] for the current document list; the quiz view
\* is never entered with the button enabled; and view_reference never opens
\* a file for an index outside that range.
C30_ShownReferenceInRange ==
    [][/\ ShownInRange
       /\ ShownInRange'
       /\ (view # 1 /\ view' = 1) => ~ ref_enabled'
       /\ OpensFile => ReferenceInRange]_vars

\* B.pdf was removed, a.pdf uploaded again, and a hint of the new quiz has
\* enabled the button with a reference into the one-document list
C30_Witness ==
    /\ view = 1
    /\ ref_enabled
    /\ pdf_file_paths = <<PathA>>
    /\ ReferenceInRange

====
